---- MODULE Spec2Model ----
(***************************************************************************)
(* A model of the customer follow-up CRM: the relational tables of the     *)
(* Prisma migration, and the HTTP handlers that read and write them.  Each *)
(* handler is a small process: one action per awaited database call, so    *)
(* that requests interleave exactly where the code yields.                 *)
(***************************************************************************)
EXTENDS Integers, Sequences, FiniteSets, TLC

\* ------------------------------------------------------------------ bounds
\* Request slots of one run, and how many may be in flight together.
MaxReq == 3
MaxInflight == 2
\* Timestamps are 0..MaxTime (the clock stops advancing at MaxTime).
MaxTime == 2
\* Most attachments one follow-up request carries.
MaxAtt == 2
\* Most fragments an error message is made of.
MaxMsgLen == 2
\* Customers of a drawn database: of the timeline's, and of the list views'.
MaxCust == 2
MaxListed == 3
\* Files selected in, and submissions of, one inline follow-up input.
MaxFiles == 2
MaxSubmits == 2

\* --------------------------------------------------------------- constants
\* Number of customers the init-db endpoint seeds.
SeedCustomerCount == 5
\* GET /customers: parseInt(searchParams.get('limit') || '10')
DefaultLimit == 10

\* SQL NULL and JavaScript's null.
None == "none"
\* JavaScript's undefined: a key the request body does not carry, a key the
\* response omits.
Undefined == "undefined"
\* v || null,  v || undefined,  if (v)
OrNull(v) == IF v \in {Undefined, ""} THEN None ELSE v
OrUndefined(v) == IF v \in {None, ""} THEN Undefined ELSE v
Truthy(v) == v \notin {Undefined, None, ""}
\* createdAt.toISOString() and new Date(str).getTime()
ToISOString(t) == [iso |-> t]
GetTime(str) == str.iso
\* UserRole.SALES
Sales == "SALES"
\* "status" "PlanStatus" NOT NULL DEFAULT 'PENDING'
Pending == "PENDING"
SentinelEmail == "wanglei@company.com"

Reqs == 1..MaxReq
Times == 0..MaxTime

VARIABLES
    users,        \* table users:             [id, email, role]
    customers,    \* table customers:         [id, name, companyInfo, email, phone,
                  \*                           address, createdAt, userId]
    followUps,    \* table follow_up_records: [id, customerId, userId, createdAt]
    attachments,  \* table attachments:       [id, followUpRecordId, createdAt]
    plans,        \* table next_step_plans:   [id, followUpRecordId, customerId, userId,
                  \*                           dueDate, status]
    clock,        \* now()
    req           \* the requests: parameters, position, locals, response

db == <<users, customers, followUps, attachments, plans>>
vars == <<users, customers, followUps, attachments, plans, clock, req>>

\* ------------------------------------------------------------ the requests
EmptyTx == [fu |-> {}, att |-> {}, plan |-> {}]

\* Row ids are cuids: fresh and never reused.  The k-th row a request creates in
\* a table gets the id <<request, k>>; NoId is the absent id.
NoId == <<>>
RowId(r, k) == <<r, k>>

\* A request slot nobody has used yet.
\* InlineFollowUpInput as mounted: useState(false), useState([]), useState(false),
\* the form invalid (content ''), and what its handleFormSubmit has captured.
InitialInput ==
    [isValid |-> FALSE, isSubmitting |-> FALSE, isUploading |-> FALSE,
     uploadedFiles |-> <<>>, nextFile |-> 1, submits |-> 0, sent |-> <<>>,
     closure |-> [isValid |-> FALSE, isSubmitting |-> FALSE, uploadedFiles |-> <<>>]]

IdleReq ==
    [kind |-> "idle", pc |-> "idle",
     cid |-> NoId, name |-> Undefined, companyInfo |-> Undefined, email |-> Undefined,
     phone |-> Undefined, address |-> Undefined, nAtt |-> 0, due |-> -1,
     page |-> 0, limit |-> 0, asc |-> FALSE,
     method |-> None, secret |-> None, secretOk |-> FALSE, inWindow |-> FALSE,
     ui |-> InitialInput, toasts |-> <<>>, toastTimeouts |-> {}, env |-> {}, now |-> 0, file |-> [present |-> FALSE, type |-> <<>>, size |-> 0],
     userId |-> NoId, recId |-> NoId, i |-> 0, j |-> 0, made |-> <<>>,
     oldEmail |-> None, oldPhone |-> None,
     tx |-> EmptyTx, status |-> 0, err |-> None, data |-> <<>>]

Running(r) == req[r].kind # "idle" /\ req[r].status = 0
Inflight == {r \in Reqs : Running(r)}

\* Slots are taken in order, and at most MaxInflight requests run at once.
CanStart(r) ==
    /\ req[r].kind = "idle"
    /\ \A q \in Reqs : q < r => req[q].kind # "idle"
    /\ Cardinality(Inflight) < MaxInflight

\* The response of a handler: NextResponse.json(..., {status}).
Respond(r, st, e, d) ==
    [req[r] EXCEPT !.status = st, !.err = e, !.data = d, !.pc = "done", !.tx = EmptyTx]

\* --------------------------------------------------------------- the clock
\* A row is stamped with now(); between two statements time may have moved on.
Stamps(dts) == {t \in Times : t >= clock /\ t - clock \in dts}

\* ------------------------------------------------------------ the database
\* CREATE UNIQUE INDEX "users_email_key" ON "users"("email")
UserEmailTaken(e) == \E u \in users : u.email = e

\* The customers table has a primary key and no other unique index: an INSERT
\* or UPDATE of a customer is never refused for its email or phone.
CustomerInsertRefused(row) == FALSE

CustomerExists(id) == \E c \in customers : c.id = id
CustomerById(id) == CHOOSE c \in customers : c.id = id
UserExists(id) == \E u \in users : u.id = id

\* ------------------------------------------- POST /customers (create a customer)
NextCheck(e, p) ==
    IF Truthy(e) THEN "chkEmail" ELSE IF Truthy(p) THEN "chkPhone" ELSE "create"

\* createCustomerSchema.parse(body) passed: name is a non-empty string, the
\* other fields are strings or absent, email and phone well-formed if present.
StartCreateCustomerWith(r, names, infos, addrs, emails, phones) ==
    /\ CanStart(r)
    /\ \E n \in names, ci \in infos, a \in addrs, e \in emails, p \in phones :
         req' = [req EXCEPT ![r] = [IdleReq EXCEPT !.kind = "createCustomer",
                                                   !.pc = "findUser", !.name = n,
                                                   !.companyInfo = ci, !.address = a,
                                                   !.email = e, !.phone = p]]
    /\ UNCHANGED <<db, clock>>

\* A body of a name and, possibly, an email and a phone.
StartCreateCustomer(r, emails, phones) ==
    StartCreateCustomerWith(r, {"x"}, {Undefined}, {Undefined}, emails, phones)

\* getOrCreateDefaultUser: prisma.user.findFirst({where: {email}})
CC_FindUser(r) ==
    /\ req[r].kind = "createCustomer" /\ req[r].pc = "findUser"
    /\ IF UserEmailTaken(SentinelEmail)
       THEN LET u == CHOOSE u \in users : u.email = SentinelEmail
            IN  req' = [req EXCEPT ![r].userId = u.id,
                                   ![r].pc = NextCheck(req[r].email, req[r].phone)]
       ELSE req' = [req EXCEPT ![r].pc = "createUser"]
    /\ UNCHANGED <<db, clock>>

\* getOrCreateDefaultUser: prisma.user.create; a unique-index failure is caught
\* and rethrown as "cannot get a valid user id", which the handler answers 500.
CC_CreateUser(r) ==
    /\ req[r].kind = "createCustomer" /\ req[r].pc = "createUser"
    /\ IF UserEmailTaken(SentinelEmail)
       THEN /\ req' = [req EXCEPT ![r] = Respond(r, 500, "noValidUserId", <<>>)]
            /\ UNCHANGED <<db, clock>>
       ELSE /\ users' = users \cup {[id |-> RowId(r, 1), email |-> SentinelEmail, role |-> Sales]}
            /\ req' = [req EXCEPT ![r].userId = RowId(r, 1),
                                  ![r].pc = NextCheck(req[r].email, req[r].phone)]
            /\ UNCHANGED <<customers, followUps, attachments, plans, clock>>

\* if (validatedData.email) findFirst({where: {email}}) -> 400
CC_CheckEmail(r) ==
    /\ req[r].kind = "createCustomer" /\ req[r].pc = "chkEmail"
    /\ IF \E c \in customers : c.email = req[r].email
       THEN req' = [req EXCEPT ![r] = Respond(r, 400, "emailInUse", <<>>)]
       ELSE req' = [req EXCEPT ![r].pc = NextCheck(Undefined, req[r].phone)]
    /\ UNCHANGED <<db, clock>>

\* A handler without the phone pre-check, and the code's:
\* if (validatedData.phone) findFirst({where: {phone}}) -> 400
CC_CheckPhone_Skipped(r) ==
    /\ req[r].kind = "createCustomer" /\ req[r].pc = "chkPhone"
    /\ req' = [req EXCEPT ![r].pc = "create"]
    /\ UNCHANGED <<db, clock>>
CC_CheckPhone(r) ==
    /\ req[r].kind = "createCustomer" /\ req[r].pc = "chkPhone"
    /\ IF \E c \in customers : c.phone = req[r].phone
       THEN req' = [req EXCEPT ![r] = Respond(r, 400, "phoneInUse", <<>>)]
       ELSE req' = [req EXCEPT ![r].pc = "create"]
    /\ UNCHANGED <<db, clock>>

\* The customer object that POST and PUT return: the row's fields as they are.
ReturnedCustomer(c) ==
    [id |-> c.id, name |-> c.name, companyInfo |-> c.companyInfo, email |-> c.email,
     phone |-> c.phone, address |-> c.address, createdAt |-> ToISOString(c.createdAt),
     userId |-> c.userId]

\* prisma.customer.create; a refused insert is answered 500 by the catch block.
CC_Create(r, dts) ==
    /\ req[r].kind = "createCustomer" /\ req[r].pc = "create"
    /\ \E t \in Stamps(dts) :
         LET row == [id |-> RowId(r, 1), name |-> req[r].name,
                     companyInfo |-> OrNull(req[r].companyInfo),
                     email |-> OrNull(req[r].email), phone |-> OrNull(req[r].phone),
                     address |-> OrNull(req[r].address),
                     createdAt |-> t, userId |-> req[r].userId]
         IN  IF CustomerInsertRefused(row) \/ ~UserExists(row.userId)
             THEN /\ req' = [req EXCEPT ![r] = Respond(r, 500, "dbError", <<>>)]
                  /\ UNCHANGED <<db, clock>>
             ELSE /\ customers' = customers \cup {row}
                        /\ clock' = t
                  /\ req' = [req EXCEPT ![r] = Respond(r, 201, None, ReturnedCustomer(row))]
                  /\ UNCHANGED <<users, followUps, attachments, plans>>

\* ---------------------------------------- PUT /customers/{id} (update a customer)
\* updateCustomerSchema.parse(body) passed: every field is optional.
StartUpdateCustomerWith(r, ids, names, infos, addrs, emails, phones) ==
    /\ CanStart(r)
    /\ \E id \in ids, n \in names, ci \in infos, a \in addrs, e \in emails, p \in phones :
         req' = [req EXCEPT ![r] = [IdleReq EXCEPT !.kind = "updateCustomer",
                                                   !.pc = "find", !.cid = id, !.name = n,
                                                   !.companyInfo = ci, !.address = a,
                                                   !.email = e, !.phone = p]]
    /\ UNCHANGED <<db, clock>>

\* A body of, possibly, an email and a phone.
StartUpdateCustomer(r, ids, emails, phones) ==
    StartUpdateCustomerWith(r, ids, {Undefined}, {Undefined}, {Undefined}, emails, phones)

\* The duplicate checks that follow compare with the row as it was read here.
UC_NextCheck(e, p, oldE, oldP) ==
    IF Truthy(e) /\ e # oldE THEN "chkEmail"
    ELSE IF Truthy(p) /\ p # oldP THEN "chkPhone" ELSE "update"

\* prisma.customer.findUnique({where: {id}}) -> 404
UC_Find(r) ==
    /\ req[r].kind = "updateCustomer" /\ req[r].pc = "find"
    /\ IF ~CustomerExists(req[r].cid)
       THEN req' = [req EXCEPT ![r] = Respond(r, 404, "customerNotFound", <<>>)]
       ELSE LET c == CustomerById(req[r].cid)
            IN  req' = [req EXCEPT ![r].oldEmail = c.email, ![r].oldPhone = c.phone,
                                   ![r].pc = UC_NextCheck(req[r].email, req[r].phone,
                                                          c.email, c.phone)]
    /\ UNCHANGED <<db, clock>>

\* findFirst({where: {email, id: {not: customerId}}}) -> 400
UC_CheckEmail(r) ==
    /\ req[r].kind = "updateCustomer" /\ req[r].pc = "chkEmail"
    /\ IF \E c \in customers : c.email = req[r].email /\ c.id # req[r].cid
       THEN req' = [req EXCEPT ![r] = Respond(r, 400, "emailInUseByOther", <<>>)]
       ELSE req' = [req EXCEPT ![r].pc = UC_NextCheck(Undefined, req[r].phone,
                                                      None, req[r].oldPhone)]
    /\ UNCHANGED <<db, clock>>

\* findFirst({where: {phone, id: {not: customerId}}}) -> 400
UC_CheckPhone(r) ==
    /\ req[r].kind = "updateCustomer" /\ req[r].pc = "chkPhone"
    /\ IF \E c \in customers : c.phone = req[r].phone /\ c.id # req[r].cid
       THEN req' = [req EXCEPT ![r] = Respond(r, 400, "phoneInUseByOther", <<>>)]
       ELSE req' = [req EXCEPT ![r].pc = "update"]
    /\ UNCHANGED <<db, clock>>

\* An update that writes the whole body, absent fields as null, and the code's
\* prisma.customer.update: only the supplied fields are written; the row may be
\* gone by now (deleted since the findUnique), which the catch block answers 500.
UC_Update_WholeBody(r) ==
    /\ req[r].kind = "updateCustomer" /\ req[r].pc = "update"
    /\ CustomerExists(req[r].cid)
    /\ LET old == CustomerById(req[r].cid)
           new == [old EXCEPT !.companyInfo = OrNull(req[r].companyInfo),
                              !.email = OrNull(req[r].email),
                              !.phone = OrNull(req[r].phone),
                              !.address = OrNull(req[r].address)]
       IN  /\ customers' = (customers \ {old}) \cup {new}
           /\ req' = [req EXCEPT ![r] = Respond(r, 200, None, ReturnedCustomer(new))]
    /\ UNCHANGED <<users, followUps, attachments, plans, clock>>
UC_Update(r) ==
    /\ req[r].kind = "updateCustomer" /\ req[r].pc = "update"
    /\ IF ~CustomerExists(req[r].cid)
       THEN /\ req' = [req EXCEPT ![r] = Respond(r, 500, "recordNotFound", <<>>)]
            /\ UNCHANGED <<db, clock>>
       ELSE LET old == CustomerById(req[r].cid)
                new == [old EXCEPT
                          !.name = IF Truthy(req[r].name) THEN req[r].name ELSE @,
                          !.companyInfo = IF req[r].companyInfo # Undefined
                                          THEN OrNull(req[r].companyInfo) ELSE @,
                          !.email = IF req[r].email # Undefined
                                    THEN OrNull(req[r].email) ELSE @,
                          !.phone = IF req[r].phone # Undefined
                                    THEN OrNull(req[r].phone) ELSE @,
                          !.address = IF req[r].address # Undefined
                                      THEN OrNull(req[r].address) ELSE @]
            IN  IF CustomerInsertRefused(new)
                THEN /\ req' = [req EXCEPT ![r] = Respond(r, 500, "dbError", <<>>)]
                     /\ UNCHANGED <<db, clock>>
                ELSE /\ customers' = (customers \ {old}) \cup {new}
                     /\ req' = [req EXCEPT ![r] = Respond(r, 200, None, ReturnedCustomer(new))]
                     /\ UNCHANGED <<users, followUps, attachments, plans, clock>>

\* -------------------------------------------------- foreign keys of the migration
FkFollowUpOk_Unchecked(row) == TRUE

\* follow_up_records_customer_id_fkey, follow_up_records_user_id_fkey
FkFollowUpOk(row) == CustomerExists(row.customerId) /\ UserExists(row.userId)

\* ON DELETE CASCADE, from customers down: the customer's follow-up records, the
\* attachments and plans of those records, and the plans of the customer.
CascadeFollowUps(id) == {f \in followUps : f.customerId = id}
CascadeAttachments_None(id) == {}

CascadeAttachments(id) ==
    {a \in attachments : \E f \in CascadeFollowUps(id) : a.followUpRecordId = f.id}
CascadePlans(id) ==
    {p \in plans : \/ p.customerId = id
                   \/ \E f \in CascadeFollowUps(id) : p.followUpRecordId = f.id}

\* An open transaction that has inserted a follow-up record holds a key-share
\* lock on the customer row it references: a DELETE of that row waits for it.
TxOpen(q) == req[q].kind = "createFollowUp" /\ req[q].pc \in {"txAtt", "txPlan", "txCommit"}
RowLocked(id) == \E q \in Reqs : TxOpen(q) /\ req[q].cid = id

\* --------------------------------------------- /api/init-db (seed the database)
SeedEmails == <<"zhang.yuan@yuanyang-logistics.com", "li.manager@techinnov.com.cn",
                "wang.chairman@smartmfg.com", "zhao.director@finance-group.com",
                "chen.ceo@newenergy-tech.com">>
\* The seed customers' name, companyInfo and address, in Latin letters.
SeedNames == <<"Zhang Zong", "Li Jingli", "Wang Dong", "Zhao Zongjian", "Chen Zong">>
SeedCompanies == <<"Yuanyang Logistics", "Tech Innovation", "Smart Manufacturing",
                   "Finance Group", "New Energy Tech">>
SeedAddresses == <<"Shanghai Pudong", "Beijing Haidian", "Shenzhen Nanshan Keji Yuan",
                   "Shanghai Jing'an", "Shenzhen Nanshan Gaoxin">>
SeedPhones == <<"+86-21-88886666", "+86-010-88887777", "+86-0755-88885555",
                "+86-021-88884444", "+86-0755-88883333">>
\* followUpRecords: PHONE_CALL, MEETING, VISIT; the VISIT record gets a plan.
SeedRecordsPerCustomer == 3

\* What a request carries for a secret (in the query, or for POST in the body).
Absent == "absent"
Wrong == "wrong"
Valid == "valid"

\* validateSecretKey: secret === expectedSecret
ValidateSecretKey(secret) == secret = Valid

\* GET or POST /api/init-db, with or without a secret, within the time window
\* after the deployment or not.
StartInitDbWith(r, methods, secrets, windows) ==
    /\ CanStart(r)
    /\ \E m \in methods, s \in secrets, w \in windows :
         req' = [req EXCEPT ![r] = [IdleReq EXCEPT !.kind = "initDb", !.pc = "check",
                                                   !.method = m, !.secret = s,
                                                   !.secretOk = ValidateSecretKey(s),
                                                   !.inWindow = w]]
    /\ UNCHANGED <<db, clock>>

\* const oneHour = 60 * 60 * 1000
OneHour == 3600000

\* The deployment happened at time 0 (milliseconds); process.env holds at most
\* one VERCEL_DEPLOYMENT_TIME, the empty set when the variable is not set.
DeployedAt == 0
NoDeploymentTime == {}
DeploymentTime == {ToISOString(DeployedAt)}

\* isValidTimeWindow: deployTime is the variable parsed, or Date.now() when it is
\* not set; currentTime is a (later) Date.now().
IsValidTimeWindow(env, first, second) ==
    LET deployTime == IF env # {} THEN GetTime(CHOOSE str \in env : TRUE) ELSE first
        currentTime == second
    IN  (currentTime - deployTime) <= OneHour

\* A request that arrives `now` milliseconds after the deployment, under a
\* configuration with or without the deployment-time variable; the two clock
\* reads of isValidTimeWindow are `lag` apart.
StartInitDbAt(r, methods, secrets, envs, nows, lags) ==
    /\ CanStart(r)
    /\ \E m \in methods, s \in secrets, e \in envs, t \in nows, lag \in lags :
         req' = [req EXCEPT ![r] = [IdleReq EXCEPT !.kind = "initDb", !.pc = "check",
                                                   !.method = m, !.secret = s,
                                                   !.secretOk = ValidateSecretKey(s),
                                                   !.env = e, !.now = t + lag,
                                                   !.inWindow = IsValidTimeWindow(e, t, t + lag)]]
    /\ UNCHANGED <<db, clock>>

\* A POST whose secret is the expected one (TRUE) or not (FALSE).
StartInitDb(r, secrets, windows) ==
    StartInitDbWith(r, {"POST"}, {IF ok THEN Valid ELSE Wrong : ok \in secrets}, windows)

\* GET without a secret parameter: the four counts of the status report.
DatabaseStatus ==
    [users |-> Cardinality(users), customers |-> Cardinality(customers),
     followUpRecords |-> Cardinality(followUps), nextStepPlans |-> Cardinality(plans)]

\* GET without searchParams.has('secret') reports the status; otherwise
\* validateSecretKey, isDatabaseInitialized, isValidTimeWindow, in that order.
IsStatusQuery(r) == req[r].method = "GET" /\ req[r].secret = Absent

IS_Check(r) ==
    /\ req[r].kind = "initDb" /\ req[r].pc = "check"
    /\ req' = [req EXCEPT ![r] =
                 IF IsStatusQuery(r) THEN Respond(r, 200, "status", DatabaseStatus)
                 ELSE IF ~req[r].secretOk THEN Respond(r, 401, "unauthorized", <<>>)
                 ELSE IF UserEmailTaken(SentinelEmail)
                      THEN Respond(r, 200, "already_initialized", <<>>)
                 ELSE IF ~req[r].inWindow THEN Respond(r, 403, "timedOut", <<>>)
                 ELSE [req[r] EXCEPT !.pc = "upsertUser"]]
    /\ UNCHANGED <<db, clock>>

\* prisma.user.upsert({where: {email}, update: {}, create: {...}})
IS_UpsertUser(r) ==
    /\ req[r].kind = "initDb" /\ req[r].pc = "upsertUser"
    /\ IF UserEmailTaken(SentinelEmail)
       THEN /\ req' = [req EXCEPT
                         ![r].userId = (CHOOSE u \in users : u.email = SentinelEmail).id,
                         ![r].pc = "createCustomer", ![r].i = 1]
            /\ UNCHANGED <<db, clock>>
       ELSE /\ users' = users \cup {[id |-> RowId(r, 1), email |-> SentinelEmail, role |-> Sales]}
            /\ req' = [req EXCEPT ![r].userId = RowId(r, 1),
                                  ![r].pc = "createCustomer", ![r].i = 1]
            /\ UNCHANGED <<customers, followUps, attachments, plans, clock>>

\* for (const customerData of customers) prisma.customer.create({data})
IS_CreateCustomer(r, dts) ==
    /\ req[r].kind = "initDb" /\ req[r].pc = "createCustomer"
    /\ \E t \in Stamps(dts) :
         LET row == [id |-> RowId(r, req[r].i), name |-> SeedNames[req[r].i],
                     companyInfo |-> SeedCompanies[req[r].i],
                     email |-> SeedEmails[req[r].i], phone |-> SeedPhones[req[r].i],
                     address |-> SeedAddresses[req[r].i], createdAt |-> t,
                     userId |-> req[r].userId]
             last == req[r].i = SeedCustomerCount
         IN  IF CustomerInsertRefused(row) \/ ~UserExists(row.userId)
             THEN /\ req' = [req EXCEPT ![r] = Respond(r, 500, "initFailed", <<>>)]
                  /\ UNCHANGED <<db, clock>>
             ELSE /\ customers' = customers \cup {row}
                        /\ clock' = t
                  /\ req' = [req EXCEPT ![r].made = Append(@, row.id),
                                        ![r].i = IF last THEN 1 ELSE @ + 1,
                                        ![r].j = IF last THEN 1 ELSE @,
                                        ![r].pc = IF last THEN "createRecord" ELSE @]
                  /\ UNCHANGED <<users, followUps, attachments, plans>>

\* for (const recordData of followUpRecords) prisma.followUpRecord.create({data});
\* the foreign keys refuse a record whose customer has been deleted meanwhile.
IS_CreateRecord(r, dts) ==
    /\ req[r].kind = "initDb" /\ req[r].pc = "createRecord"
    /\ \E t \in Stamps(dts) :
         LET row == [id |-> RowId(r, (req[r].i - 1) * SeedRecordsPerCustomer + req[r].j),
                     customerId |-> req[r].made[req[r].i],
                     userId |-> req[r].userId, createdAt |-> t]
             visit == req[r].j = SeedRecordsPerCustomer
         IN  IF ~FkFollowUpOk(row)
             THEN /\ req' = [req EXCEPT ![r] = Respond(r, 500, "initFailed", <<>>)]
                  /\ UNCHANGED <<db, clock>>
             ELSE /\ followUps' = followUps \cup {row}
                        /\ clock' = t
                  /\ req' = [req EXCEPT ![r].recId = row.id,
                                        ![r].j = IF visit THEN @ ELSE @ + 1,
                                        ![r].pc = IF visit THEN "createPlan" ELSE @]
                  /\ UNCHANGED <<users, customers, attachments, plans>>

\* if (followUpType === VISIT) prisma.nextStepPlan.create: due one to three weeks on.
IS_CreatePlan(r) ==
    /\ req[r].kind = "initDb" /\ req[r].pc = "createPlan"
    /\ LET row == [id |-> RowId(r, req[r].i), followUpRecordId |-> req[r].recId,
                   customerId |-> req[r].made[req[r].i], userId |-> req[r].userId,
                   dueDate |-> MaxTime, status |-> Pending]
           last == req[r].i = SeedCustomerCount
       IN  IF \/ ~CustomerExists(row.customerId)
              \/ ~UserExists(row.userId)
              \/ ~\E f \in followUps : f.id = row.followUpRecordId
           THEN /\ req' = [req EXCEPT ![r] = Respond(r, 500, "initFailed", <<>>)]
                /\ UNCHANGED <<db, clock>>
           ELSE /\ plans' = plans \cup {row}
                    /\ req' = IF last
                          THEN [req EXCEPT ![r] = Respond(r, 200, "initialized", <<>>)]
                          ELSE [req EXCEPT ![r].i = @ + 1, ![r].j = 1,
                                           ![r].pc = "createRecord"]
                /\ UNCHANGED <<users, customers, followUps, attachments, clock>>

\* ---------------------------------------- DELETE /customers/{id} (delete a customer)
StartDeleteCustomer(r, ids) ==
    /\ CanStart(r)
    /\ \E id \in ids :
         req' = [req EXCEPT ![r] = [IdleReq EXCEPT !.kind = "deleteCustomer",
                                                   !.pc = "find", !.cid = id]]
    /\ UNCHANGED <<db, clock>>

\* prisma.customer.findUnique({where: {id}}) -> 404
DC_Find(r) ==
    /\ req[r].kind = "deleteCustomer" /\ req[r].pc = "find"
    /\ req' = [req EXCEPT ![r] =
                 IF CustomerExists(req[r].cid) THEN [req[r] EXCEPT !.pc = "delete"]
                 ELSE Respond(r, 404, "customerNotFound", <<>>)]
    /\ UNCHANGED <<db, clock>>

\* prisma.customer.delete({where: {id}}); the row may be gone already (deleted by
\* another request since the findUnique), which the catch block answers 500.
DC_Delete(r) ==
    /\ req[r].kind = "deleteCustomer" /\ req[r].pc = "delete"
    /\ ~RowLocked(req[r].cid)
    /\ IF ~CustomerExists(req[r].cid)
       THEN /\ req' = [req EXCEPT ![r] = Respond(r, 500, "recordNotFound", <<>>)]
            /\ UNCHANGED <<db, clock>>
       ELSE /\ customers' = customers \ {CustomerById(req[r].cid)}
            /\ followUps' = followUps \ CascadeFollowUps(req[r].cid)
            /\ attachments' = attachments \ CascadeAttachments(req[r].cid)
            /\ plans' = plans \ CascadePlans(req[r].cid)
            /\ req' = [req EXCEPT ![r] = Respond(r, 200, None, <<>>)]
            /\ UNCHANGED <<users, clock>>

\* GET /customers/{id}: findUnique, 404 when there is no such customer.
GetCustomerStatus(id) == IF CustomerExists(id) THEN 200 ELSE 404

\* ------------------------------------------------------------------- ordering
\* The rows of a table in the order a scan finds them: any order.
Perms(S) == {p \in [1..Cardinality(S) -> S] : \A a, b \in 1..Cardinality(S) : p[a] = p[b] => a = b}

\* A stable sort of seq by the comparator Cmp (negative: first argument first),
\* as Array.prototype.sort and ORDER BY produce it.
InsertInOrder(s, x, Cmp(_, _)) ==
    LET later == {k \in 1..Len(s) : Cmp(s[k], x) > 0}
        at == IF later = {} THEN Len(s) + 1 ELSE CHOOSE k \in later : \A m \in later : k <= m
    IN  SubSeq(s, 1, at - 1) \o <<x>> \o SubSeq(s, at, Len(s))

StableSort(seq, Cmp(_, _)) ==
    LET sorted[n \in 0..Len(seq)] ==
            IF n = 0 THEN <<>> ELSE InsertInOrder(sorted[n - 1], seq[n], Cmp)
    IN  sorted[Len(seq)]

CreatedAtAsc(a, b) == a.createdAt - b.createdAt
CreatedAtDesc_Reversed(a, b) == a.createdAt - b.createdAt
CreatedAtDesc(a, b) == b.createdAt - a.createdAt
DueDateAsc(a, b) == a.dueDate - b.dueDate

\* orderBy: {createdAt: 'asc'}, {createdAt: 'desc'}, {dueDate: 'asc'}: the possible
\* results (rows with equal keys come in either order).
OrderByCreatedAtAsc(S) == {StableSort(p, CreatedAtAsc) : p \in Perms(S)}
OrderByCreatedAtDesc(S) == {StableSort(p, CreatedAtDesc) : p \in Perms(S)}
OrderByDueDateAsc(S) == {StableSort(p, DueDateAsc) : p \in Perms(S)}

\* A follow-up record with its includes, as the handlers compose it.
Composed(f, atts, pls) ==
    [id |-> f.id, customerId |-> f.customerId, userId |-> f.userId,
     createdAt |-> f.createdAt, attachments |-> atts, nextStepPlans |-> pls]

\* include: {attachments: {orderBy: {createdAt: 'asc'}},
\*           nextStepPlans: {orderBy: {dueDate: 'asc'}}} over the tables given.
WithIncludes(f, attTable, planTable) ==
    {Composed(f, atts, pls) :
        atts \in OrderByCreatedAtAsc({a \in attTable : a.followUpRecordId = f.id}),
        pls \in OrderByDueDateAsc({p \in planTable : p.followUpRecordId = f.id})}

\* ------------------------- POST /customers/{id}/followups (create a follow-up)
StartCreateFollowUp(r, ids, counts, dues) ==
    /\ CanStart(r)
    /\ \E id \in ids, n \in counts, d \in dues :
         req' = [req EXCEPT ![r] = [IdleReq EXCEPT !.kind = "createFollowUp",
                                                   !.pc = "findCustomer", !.cid = id,
                                                   !.nAtt = n, !.due = d]]
    /\ UNCHANGED <<db, clock>>

FU_FindCustomer_Unverified(r) ==
    /\ req[r].kind = "createFollowUp" /\ req[r].pc = "findCustomer"
    /\ req' = [req EXCEPT ![r].pc = "findUser"]
    /\ UNCHANGED <<db, clock>>

\* prisma.customer.findUnique({where: {id}}) -> 404
FU_FindCustomer(r) ==
    /\ req[r].kind = "createFollowUp" /\ req[r].pc = "findCustomer"
    /\ req' = [req EXCEPT ![r] =
                 IF CustomerExists(req[r].cid) THEN [req[r] EXCEPT !.pc = "findUser"]
                 ELSE Respond(r, 404, "customerNotFound", <<>>)]
    /\ UNCHANGED <<db, clock>>

\* prisma.user.findFirst({select: {id}}) -> 400: the first user found, any user.
FU_FindUser(r) ==
    /\ req[r].kind = "createFollowUp" /\ req[r].pc = "findUser"
    /\ IF users = {}
       THEN req' = [req EXCEPT ![r] = Respond(r, 400, "noUser", <<>>)]
       ELSE \E u \in users : req' = [req EXCEPT ![r].userId = u.id, ![r].pc = "txCreate"]
    /\ UNCHANGED <<db, clock>>

AfterRecord(n, d) == IF n > 0 THEN "txAtt" ELSE IF d >= 0 THEN "txPlan" ELSE "txCommit"

\* prisma.$transaction opens; tx.followUpRecord.create.  A foreign-key failure
\* aborts the transaction and the catch block answers 500.
FU_TxCreate(r, dts) ==
    /\ req[r].kind = "createFollowUp" /\ req[r].pc = "txCreate"
    /\ \E t \in Stamps(dts) :
         LET row == [id |-> RowId(r, 1), customerId |-> req[r].cid,
                     userId |-> req[r].userId, createdAt |-> t]
         IN  IF ~FkFollowUpOk(row)
             THEN /\ req' = [req EXCEPT ![r] = Respond(r, 500, "foreignKey", <<>>)]
                  /\ UNCHANGED <<db, clock>>
             ELSE /\ req' = [req EXCEPT ![r].tx.fu = {row}, ![r].recId = row.id,
                                        ![r].pc = AfterRecord(req[r].nAtt, req[r].due)]
                  /\ clock' = t
                  /\ UNCHANGED db

\* Where tx.attachment.createMany puts its rows: in the transaction, unseen by
\* every other request until the commit.
InsertAttachments_Autocommit(r, rows) ==
    /\ attachments' = attachments \cup rows
    /\ req' = [req EXCEPT ![r].pc = AfterRecord(0, req[r].due)]

InsertAttachments(r, rows) ==
    /\ req' = [req EXCEPT ![r].tx.att = rows, ![r].pc = AfterRecord(0, req[r].due)]
    /\ attachments' = attachments

\* if (attachments.length > 0) tx.attachment.createMany({data})
FU_TxAttachments(r, dts) ==
    /\ req[r].kind = "createFollowUp" /\ req[r].pc = "txAtt"
    /\ \E ts \in [1..req[r].nAtt -> Stamps(dts)] :
         /\ \A k \in 1..(req[r].nAtt - 1) : ts[k] <= ts[k + 1]
         /\ InsertAttachments(r, {[id |-> RowId(r, k), followUpRecordId |-> req[r].recId,
                                   createdAt |-> ts[k]] : k \in 1..req[r].nAtt})
         /\ clock' = ts[req[r].nAtt]
    /\ UNCHANGED <<users, customers, followUps, plans>>

\* A handler that drops the next step, and the code's:
\* if (nextStep) tx.nextStepPlan.create({data})
FU_TxPlan_Skipped(r) ==
    /\ req[r].kind = "createFollowUp" /\ req[r].pc = "txPlan"
    /\ req' = [req EXCEPT ![r].pc = "txCommit"]
    /\ UNCHANGED <<db, clock>>
FU_TxPlan(r) ==
    /\ req[r].kind = "createFollowUp" /\ req[r].pc = "txPlan"
    /\ req' = [req EXCEPT ![r].tx.plan = {[id |-> RowId(r, 1),
                                           followUpRecordId |-> req[r].recId,
                                           customerId |-> req[r].cid,
                                           userId |-> req[r].userId,
                                           dueDate |-> req[r].due,
                                           status |-> Pending]},
                          ![r].pc = "txCommit"]
    /\ UNCHANGED <<db, clock>>

\* tx.followUpRecord.findUnique with its includes, then the callback returns and
\* the transaction commits: its rows become visible together; 201.
FU_TxCommit(r) ==
    /\ req[r].kind = "createFollowUp" /\ req[r].pc = "txCommit"
    /\ followUps' = followUps \cup req[r].tx.fu
    /\ attachments' = attachments \cup req[r].tx.att
    /\ plans' = plans \cup req[r].tx.plan
    /\ \E f \in req[r].tx.fu :
         \E rec \in WithIncludes(f, attachments', plans') :
            req' = [req EXCEPT ![r] = Respond(r, 201, None, <<rec>>)]
    /\ UNCHANGED <<users, customers, clock>>

\* A statement of the open transaction fails (the database is unreachable, the
\* transaction times out): the transaction is rolled back; 500.
FU_TxFail(r) ==
    /\ TxOpen(r)
    /\ req' = [req EXCEPT ![r] = Respond(r, 500, "dbFailure", <<req[r].pc>>)]
    /\ UNCHANGED <<db, clock>>

\* ---------------------------- GET /customers/{id}/followups (list follow-ups)
StartListFollowUps(r, ids) ==
    /\ CanStart(r)
    /\ \E id \in ids :
         req' = [req EXCEPT ![r] = [IdleReq EXCEPT !.kind = "listFollowUps",
                                                   !.pc = "findCustomer", !.cid = id]]
    /\ UNCHANGED <<db, clock>>

\* prisma.customer.findUnique({where: {id}}) -> 404
LF_FindCustomer(r) ==
    /\ req[r].kind = "listFollowUps" /\ req[r].pc = "findCustomer"
    /\ req' = [req EXCEPT ![r] =
                 IF CustomerExists(req[r].cid) THEN [req[r] EXCEPT !.pc = "findMany"]
                 ELSE Respond(r, 404, "customerNotFound", <<>>)]
    /\ UNCHANGED <<db, clock>>

\* The records findMany({where: {customerId}}) selects.
RecordsOf(id) == {f \in followUps : f.customerId = id}

\* prisma.followUpRecord.findMany({where: {customerId}, include,
\*                                 orderBy: {createdAt: 'desc'}})
LF_FindMany(r) ==
    /\ req[r].kind = "listFollowUps" /\ req[r].pc = "findMany"
    /\ \E rs \in OrderByCreatedAtDesc(RecordsOf(req[r].cid)) :
         \E inc \in [1..Len(rs) -> UNION {WithIncludes(f, attachments, plans) : f \in followUps}] :
            /\ \A k \in 1..Len(rs) : inc[k] \in WithIncludes(rs[k], attachments, plans)
            /\ req' = [req EXCEPT ![r] = Respond(r, 200, None, inc)]
    /\ UNCHANGED <<db, clock>>

\* --------------------------------------- GET /customers/{id} (customer detail)
StartGetCustomer(r, ids) ==
    /\ CanStart(r)
    /\ \E id \in ids :
         req' = [req EXCEPT ![r] = [IdleReq EXCEPT !.kind = "getCustomer",
                                                   !.pc = "findUnique", !.cid = id]]
    /\ UNCHANGED <<db, clock>>

\* The size of the two tables, and the code's
\* include: {_count: {select: {followUpRecords: true, nextStepPlans: true}}}
CountOf_AllRows(id) ==
    [followUpRecords |-> Cardinality(followUps), nextStepPlans |-> Cardinality(plans)]
CountOf(id) ==
    [followUpRecords |-> Cardinality({f \in followUps : f.customerId = id}),
     nextStepPlans |-> Cardinality({p \in plans : p.customerId = id})]

\* The CustomerDetail of the response: optional fields go through `|| undefined`.
CustomerDetail(c) ==
    [id |-> c.id, name |-> c.name, companyInfo |-> OrUndefined(c.companyInfo),
     email |-> OrUndefined(c.email), phone |-> OrUndefined(c.phone),
     address |-> OrUndefined(c.address), createdAt |-> ToISOString(c.createdAt),
     userId |-> c.userId, count |-> CountOf(c.id)]

\* prisma.customer.findUnique({where: {id}, include}) -> 404, else 200
GD_FindUnique(r) ==
    /\ req[r].kind = "getCustomer" /\ req[r].pc = "findUnique"
    /\ req' = [req EXCEPT ![r] =
                 IF CustomerExists(req[r].cid)
                 THEN Respond(r, 200, None, CustomerDetail(CustomerById(req[r].cid)))
                 ELSE Respond(r, 404, "customerNotFound", <<>>)]
    /\ UNCHANGED <<db, clock>>

\* ------------------------------------------------------------- initial states
\* A freshly migrated database: every table is empty.
Init ==
    /\ users = {} /\ customers = {} /\ followUps = {} /\ attachments = {} /\ plans = {}
    /\ clock = 0
    /\ req = [r \in Reqs |-> IdleReq]

\* ------------------------------- customers: creation, update and seeding together
UserEmails == {Undefined, "a@x.com", SeedEmails[1]}
UserPhones == {Undefined, "13800138000"}

NextCustomers ==
    \E r \in Reqs :
        \/ StartCreateCustomer(r, UserEmails, UserPhones)
        \/ CC_FindUser(r) \/ CC_CreateUser(r) \/ CC_CheckEmail(r) \/ CC_CheckPhone(r)
        \/ CC_Create(r, {0})
        \/ StartUpdateCustomer(r, {RowId(1, 1), RowId(2, 1)}, UserEmails, UserPhones)
        \/ UC_Find(r) \/ UC_CheckEmail(r) \/ UC_CheckPhone(r) \/ UC_Update(r)
        \/ StartInitDb(r, {TRUE}, {TRUE})
        \/ IS_Check(r) \/ IS_UpsertUser(r) \/ IS_CreateCustomer(r, {0})
        \/ IS_CreateRecord(r, {0}) \/ IS_CreatePlan(r)

SpecCustomers == Init /\ [][NextCustomers]_vars

\* ------------------------------------------- customers: concurrent creations only
NextCreate ==
    \E r \in Reqs :
        \/ StartCreateCustomer(r, UserEmails, UserPhones)
        \/ CC_FindUser(r) \/ CC_CreateUser(r) \/ CC_CheckEmail(r) \/ CC_CheckPhone(r)
        \/ CC_Create(r, {0, 1})

SpecCreate == Init /\ [][NextCreate]_vars

Done(r) == req[r].kind # "idle" /\ req[r].status # 0

\* C2: of two finished POST /customers requests that carry the same non-null
\* email exactly one has succeeded (201); they never both succeed.
C2_ExactlyOneCreated ==
    \A r1, r2 \in Reqs :
        ( /\ r1 # r2
          /\ req[r1].kind = "createCustomer" /\ req[r2].kind = "createCustomer"
          /\ Truthy(req[r1].email) /\ req[r1].email = req[r2].email
          /\ Done(r1) /\ Done(r2) )
        => Cardinality({r \in {r1, r2} : req[r].status = 201}) = 1

\* C3: no two distinct customers share a non-null email, and no two distinct
\* customers share a non-null phone.
C3_EmailPhoneUnique ==
    \A c1, c2 \in customers :
        c1.id # c2.id =>
            /\ (c1.email # None => c1.email # c2.email)
            /\ (c1.phone # None => c1.phone # c2.phone)

\* ------------------------ follow-ups: creation racing with customer deletion
\* A database in which customers 1..n have been created already (by earlier,
\* finished POST /customers requests of the default user), and those of `had`
\* have one follow-up each, with one attachment and one plan.
SomeCustomers(n) ==
    {[id |-> RowId(0, k), name |-> "x", companyInfo |-> None, email |-> None,
      phone |-> None, address |-> None, createdAt |-> 0,
      userId |-> RowId(0, 1)] : k \in 1..n}
SomeFollowUps(had) ==
    {[id |-> RowId(0, k), customerId |-> RowId(0, k), userId |-> RowId(0, 1),
      createdAt |-> 0] : k \in had}
SomeAttachments(had) ==
    {[id |-> RowId(0, k), followUpRecordId |-> RowId(0, k), createdAt |-> 0] : k \in had}
SomePlans(had) ==
    {[id |-> RowId(0, k), followUpRecordId |-> RowId(0, k), customerId |-> RowId(0, k),
      userId |-> RowId(0, 1), dueDate |-> 1, status |-> Pending] : k \in had}

InitDatabase(n, had) ==
    /\ customers = SomeCustomers(n)
    /\ users = IF n = 0 THEN {} ELSE {[id |-> RowId(0, 1), email |-> SentinelEmail, role |-> Sales]}
    /\ followUps = SomeFollowUps(had)
    /\ attachments = SomeAttachments(had)
    /\ plans = SomePlans(had)
    /\ clock = 0
    /\ req = [r \in Reqs |-> IdleReq]

InitFollowUp == \E n \in 0..1 : InitDatabase(n, {})

NextFollowUp ==
    \E r \in Reqs :
        \/ StartCreateCustomer(r, {Undefined}, {Undefined})
        \/ CC_FindUser(r) \/ CC_CreateUser(r) \/ CC_Create(r, {0})
        \/ StartDeleteCustomer(r, {RowId(0, 1), RowId(1, 1)})
        \/ DC_Find(r) \/ DC_Delete(r)
        \/ StartCreateFollowUp(r, {RowId(0, 1), RowId(1, 1)}, {0, MaxAtt}, {-1, 1})
        \/ FU_FindCustomer(r) \/ FU_FindUser(r) \/ FU_TxCreate(r, {0})
        \/ FU_TxAttachments(r, {0}) \/ FU_TxPlan(r) \/ FU_TxCommit(r) \/ FU_TxFail(r)

SpecFollowUp == InitFollowUp /\ [][NextFollowUp]_vars

\* --------------------------- the timeline: listing, creation and deletion
InitTimeline == \E n \in 0..MaxCust : \E had \in SUBSET (1..n) : InitDatabase(n, had)

NextTimeline ==
    \E r \in Reqs :
        \/ StartDeleteCustomer(r, {RowId(0, 1)})
        \/ DC_Find(r) \/ DC_Delete(r)
        \/ StartCreateFollowUp(r, {RowId(0, 1)}, {MaxAtt}, {1})
        \/ FU_FindCustomer(r) \/ FU_FindUser(r) \/ FU_TxCreate(r, {0, 1})
        \/ FU_TxAttachments(r, {0, 1}) \/ FU_TxPlan(r) \/ FU_TxCommit(r) \/ FU_TxFail(r)
        \/ StartListFollowUps(r, {RowId(0, 1)})
        \/ LF_FindCustomer(r) \/ LF_FindMany(r)

SpecTimeline == InitTimeline /\ [][NextTimeline]_vars

\* ------------------------------------------ the customer list (page and API)

\* The rows findMany reads for one customer: include _count and
\* followUpRecords: {orderBy: {createdAt: 'desc'}, take: 1}.
LatestOf(c) ==
    IF RecordsOf(c.id) = {} THEN {<<>>}
    ELSE {<<rs[1]>> : rs \in OrderByCreatedAtDesc(RecordsOf(c.id))}

\* customers.map(...): the entry of the list for one customer.
MappedCustomer(c, latest) ==
    [id |-> c.id,
     createdAt |-> ToISOString(c.createdAt),
     followUpCount |-> Cardinality(RecordsOf(c.id)),
     planCount |-> Cardinality({p \in plans : p.customerId = c.id}),
     latestFollowUpRecord |->
        IF latest = <<>> THEN <<>>
        ELSE <<[id |-> latest[1].id, createdAt |-> ToISOString(latest[1].createdAt)]>>]

CompareCustomers_OwnDateOnly(a, b) == GetTime(b.createdAt) - GetTime(a.createdAt)

\* The comparator of mappedCustomers.sort((a, b) => ...).
CompareCustomers(a, b) ==
    IF a.latestFollowUpRecord # <<>> /\ b.latestFollowUpRecord # <<>>
    THEN GetTime(b.latestFollowUpRecord[1].createdAt)
            - GetTime(a.latestFollowUpRecord[1].createdAt)
    ELSE IF a.latestFollowUpRecord # <<>> /\ b.latestFollowUpRecord = <<>> THEN -1
    ELSE IF a.latestFollowUpRecord = <<>> /\ b.latestFollowUpRecord # <<>> THEN 1
    ELSE GetTime(b.createdAt) - GetTime(a.createdAt)

StartGetCustomers(r) ==
    /\ CanStart(r)
    /\ req' = [req EXCEPT ![r] = [IdleReq EXCEPT !.kind = "getCustomers", !.pc = "findMany"]]
    /\ UNCHANGED <<db, clock>>

\* getCustomers(): findMany without orderBy (the rows come in any order), map, sort.
GC_GetCustomers(r) ==
    /\ req[r].kind = "getCustomers" /\ req[r].pc = "findMany"
    /\ \E scan \in Perms(customers) :
         \E latest \in [customers -> UNION {LatestOf(c) : c \in customers}] :
            /\ \A c \in customers : latest[c] \in LatestOf(c)
            /\ LET mapped == [k \in 1..Len(scan) |-> MappedCustomer(scan[k], latest[scan[k]])]
               IN  req' = [req EXCEPT ![r] = Respond(r, 200, None,
                                                     StableSort(mapped, CompareCustomers))]
    /\ UNCHANGED <<db, clock>>

\* GET /customers?page=&limit=&sortOrder=: 0 stands for an absent parameter.
StartListCustomers(r, pages, limits, orders) ==
    /\ CanStart(r)
    /\ \E pg \in pages, lim \in limits, asc \in orders :
         req' = [req EXCEPT ![r] = [IdleReq EXCEPT !.kind = "listCustomers",
                                                   !.pc = "findMany", !.page = pg,
                                                   !.limit = lim, !.asc = asc]]
    /\ UNCHANGED <<db, clock>>

\* parseInt(searchParams.get('page') || '1'), parseInt(... 'limit' || '10')
PageOf(pg) == IF pg = 0 THEN 1 ELSE pg
LimitOf(lim) == IF lim = 0 THEN DefaultLimit ELSE lim

\* A query without skip and take, and with them: skip: offset, take: limit
SkipTake_All(s, offset, limit) == s
SkipTake(s, offset, limit) ==
    SubSeq(s, offset + 1, IF offset + limit < Len(s) THEN offset + limit ELSE Len(s))

\* The list entry of GET /customers: the customer and _count.followUpRecords.
ListedCustomer(c) ==
    [id |-> c.id, createdAt |-> ToISOString(c.createdAt),
     followUpCount |-> Cardinality(RecordsOf(c.id))]

\* findMany({where: {}, orderBy: {createdAt: sortOrder}, skip, take}) and count().
LC_ListCustomers(r) ==
    /\ req[r].kind = "listCustomers" /\ req[r].pc = "findMany"
    /\ LET page == PageOf(req[r].page)
           limit == LimitOf(req[r].limit)
           total == Cardinality(customers)
       IN  \E all \in (IF req[r].asc THEN OrderByCreatedAtAsc(customers)
                                   ELSE OrderByCreatedAtDesc(customers)) :
              LET rows == SkipTake(all, (page - 1) * limit, limit)
              IN  req' = [req EXCEPT ![r] = Respond(r, 200, None,
                            [customers |-> [k \in 1..Len(rows) |-> ListedCustomer(rows[k])],
                             pagination |-> [page |-> page, limit |-> limit, total |-> total,
                                             pages |-> (total + limit - 1) \div limit]])]
    /\ UNCHANGED <<db, clock>>

\* A database of n customers, created one after the other at the times cT, the
\* k-th with one follow-up at each time of fT[k] (none before its customer).
ListedCustomers(n, cT) ==
    {[id |-> RowId(0, k), name |-> "x", companyInfo |-> None, email |-> None,
      phone |-> None, address |-> None, createdAt |-> cT[k],
      userId |-> RowId(0, 1)] : k \in 1..n}
ListedFollowUps(n, fT) ==
    UNION {{[id |-> RowId(k, t + 1), customerId |-> RowId(0, k), userId |-> RowId(0, 1),
             createdAt |-> t] : t \in fT[k]} : k \in 1..n}

InitList ==
    /\ \E n \in 0..MaxListed :
         \E cT \in [1..n -> Times], fT \in [1..n -> SUBSET Times] :
            /\ \A k \in 1..n : (k < n => cT[k] <= cT[k + 1]) /\ \A t \in fT[k] : t >= cT[k]
            /\ customers = ListedCustomers(n, cT)
            /\ followUps = ListedFollowUps(n, fT)
            /\ users = IF n = 0 THEN {} ELSE {[id |-> RowId(0, 1), email |-> SentinelEmail, role |-> Sales]}
    /\ attachments = {} /\ plans = {}
    /\ clock = MaxTime
    /\ req = [r \in Reqs |-> IdleReq]

\* One read of a database that nobody writes meanwhile.
NextList ==
    \E r \in {1} :
        \/ StartGetCustomers(r)
        \/ GC_GetCustomers(r)
        \/ StartListCustomers(r, {0, 2}, {0, 1, 2}, {FALSE, TRUE})
        \/ LC_ListCustomers(r)

SpecList == InitList /\ [][NextList]_vars

\* ------------------------------------------------------------------ properties
IsCreateFollowUp(r) == req[r].kind = "createFollowUp"

\* The committed rows of the follow-up that request r creates.
CommittedRecord(r) == {f \in followUps : f.id = req[r].recId}
CommittedAttachments(r) == {a \in attachments : a.followUpRecordId = req[r].recId}
CommittedPlans(r) == {p \in plans : p.followUpRecordId = req[r].recId}

\* C1: follow-up creation is atomic: in every state, of the rows a creation
\* request asked for (the record, every attachment, the plan if it has a next
\* step) either all are in the database or none is.
C1_AllOrNothing ==
    \A r \in Reqs : IsCreateFollowUp(r) =>
        \/ /\ CommittedRecord(r) = {}
           /\ CommittedAttachments(r) = {}
           /\ CommittedPlans(r) = {}
        \/ /\ Cardinality(CommittedRecord(r)) = 1
           /\ Cardinality(CommittedAttachments(r)) = req[r].nAtt
           /\ Cardinality(CommittedPlans(r)) = IF req[r].due >= 0 THEN 1 ELSE 0

\* A request with attachments and a next step failed between the attachment
\* insert and the plan insert, and another such request went through.
C1_Witness ==
    /\ \E r \in Reqs :
         /\ IsCreateFollowUp(r) /\ req[r].nAtt > 0 /\ req[r].due >= 0
         /\ req[r].status = 500 /\ req[r].err = "dbFailure" /\ req[r].data = <<"txPlan">>
    /\ \E r \in Reqs :
         /\ IsCreateFollowUp(r) /\ req[r].nAtt > 0 /\ req[r].due >= 0
         /\ req[r].status = 201 /\ CommittedRecord(r) # {}

\* C4: referential integrity: every follow-up record references an existing
\* customer and an existing user; every attachment and every plan references an
\* existing follow-up record.
C4_ReferentialIntegrity ==
    /\ \A f \in followUps : CustomerExists(f.customerId) /\ UserExists(f.userId)
    /\ \A a \in attachments : \E f \in followUps : f.id = a.followUpRecordId
    /\ \A p \in plans : \E f \in followUps : f.id = p.followUpRecordId

\* A customer was created, another was deleted, and a follow-up with
\* attachments and a plan is in the database.
C4_Witness ==
    /\ \E r \in Reqs : req[r].kind = "createCustomer" /\ req[r].status = 201
    /\ \E r \in Reqs : req[r].kind = "deleteCustomer" /\ req[r].status = 200
    /\ followUps # {} /\ attachments # {} /\ plans # {}

\* C6: the customer verification and the insert of the follow-up record are one
\* atomic step: a creation that meets no database failure and finds a user ends
\* in success (201) or in not-found (404), whatever deletion it races with.
C6_CreatedOrNotFound ==
    \A r \in Reqs :
        (IsCreateFollowUp(r) /\ Done(r) /\ req[r].err \notin {"dbFailure", "noUser"})
        => req[r].status \in {201, 404}

\* The rows of the follow-up tables that request r has created.
WrittenBy(r) ==
    {f \in followUps : f.id[1] = r} \cup {a \in attachments : a.id[1] = r}
        \cup {p \in plans : p.id[1] = r}

\* No row of a creation answered 404 (missing customer) or 400 (no user) exists.
C10_NothingWritten ==
    \A r \in Reqs :
        (IsCreateFollowUp(r) /\ req[r].status \in {404, 400})
        => /\ WrittenBy(r) = {}
           /\ req[r].recId = NoId
           /\ req[r].err = IF req[r].status = 404 THEN "customerNotFound" ELSE "noUser"

C10_PreconditionStep ==
    \A r \in Reqs :
        (IsCreateFollowUp(r) /\ req'[r] # req[r]) =>
            /\ (req[r].pc = "findCustomer" /\ ~CustomerExists(req[r].cid))
                   => (req'[r].status = 404 /\ UNCHANGED db)
            /\ (req[r].pc = "findUser" /\ users = {})
                   => (req'[r].status = 400 /\ UNCHANGED db)

C5_DeleteStep ==
    \A r \in Reqs :
        (req[r].kind = "deleteCustomer" /\ req[r].status = 0 /\ req'[r].status # 0) =>
            LET id == req[r].cid
                gone == {f.id : f \in {g \in followUps : g.customerId = id}}
            IN  /\ req'[r].status = 200 =>
                    /\ CustomerExists(id)
                    /\ customers' = {c \in customers : c.id # id}
                    /\ followUps' = {f \in followUps : f.customerId # id}
                    /\ attachments' = {a \in attachments : a.followUpRecordId \notin gone}
                    /\ plans' = {p \in plans : p.customerId # id
                                               /\ p.followUpRecordId \notin gone}
                    /\ users' = users
                /\ req'[r].status = 404 => (~CustomerExists(id) /\ UNCHANGED db)
                /\ (req[r].pc = "find" /\ ~CustomerExists(id)) => req'[r].status = 404

C5_DeletedStaysGone ==
    \A r \in Reqs :
        (req[r].kind = "deleteCustomer" /\ req[r].status = 200)
        => GetCustomerStatus(req[r].cid) = 404

\* C5: a DELETE answered 200 removed exactly the customer, its follow-up
\* records, their attachments and plans and the customer's plans, in one step;
\* the customer's detail is 404 in every later state; a DELETE on a missing id
\* is answered 404 and changes nothing.
C5_DeleteCascades == []C5_DeletedStaysGone /\ [][C5_DeleteStep]_vars

\* The deleted customer had two follow-ups, each with attachments and a plan,
\* and the rows of another customer are still there.
C5_Witness ==
    \E r \in Reqs :
        /\ req[r].kind = "deleteCustomer" /\ req[r].status = 200
        /\ Cardinality({q \in Reqs : /\ IsCreateFollowUp(q) /\ req[q].status = 201
                                     /\ req[q].cid = req[r].cid
                                     /\ req[q].nAtt > 0 /\ req[q].due >= 0}) = 2
        /\ followUps # {} /\ attachments # {} /\ plans # {}

IsSortedBy(s, Cmp(_, _)) == \A a, b \in 1..Len(s) : a < b => Cmp(s[a], s[b]) <= 0
Ids(s) == {s[k].id : k \in 1..Len(s)}

C9_Listed ==
    \A r \in Reqs :
        (req[r].kind = "listFollowUps" /\ req[r].status = 200) =>
            LET d == req[r].data
            IN  /\ \A a, b \in 1..Len(d) : a < b => d[a].createdAt >= d[b].createdAt
                /\ \A a, b \in 1..Len(d) : d[a].id = d[b].id => a = b
                /\ \A k \in 1..Len(d) :
                     /\ d[k].customerId = req[r].cid
                     /\ IsSortedBy(d[k].attachments, CreatedAtAsc)
                     /\ IsSortedBy(d[k].nextStepPlans, DueDateAsc)

C9_ListStep ==
    \A r \in Reqs :
        (req[r].kind = "listFollowUps" /\ req'[r] # req[r]) =>
            /\ UNCHANGED db
            /\ req[r].pc = "findCustomer" =>
                   (req'[r].status = 404 <=> ~CustomerExists(req[r].cid))
            /\ req[r].pc = "findMany" =>
                   LET d == req'[r].data
                   IN  /\ req'[r].status = 200
                       /\ Ids(d) = {f.id : f \in {g \in followUps : g.customerId = req[r].cid}}
                       /\ \A k \in 1..Len(d) :
                            /\ Len(d[k].attachments) = Cardinality(Ids(d[k].attachments))
                            /\ Ids(d[k].attachments) =
                                 {a.id : a \in {b \in attachments : b.followUpRecordId = d[k].id}}
                            /\ Ids(d[k].nextStepPlans) =
                                 {p.id : p \in {q \in plans : q.followUpRecordId = d[k].id}}

HasFollowUp(id) == \E f \in followUps : f.customerId = id
NewestFollowUp(id) ==
    CHOOSE t \in Times : /\ \E f \in followUps : f.customerId = id /\ f.createdAt = t
                         /\ \A f \in followUps : f.customerId = id => f.createdAt <= t
OwnCreatedAt(id) == CustomerById(id).createdAt

\* The two-tier order of a list of customer entries: followed-up customers
\* first, newest follow-up first; then the others, newest customer first.
TwoTier(d) ==
    \A a, b \in 1..Len(d) : a < b =>
        /\ HasFollowUp(d[b].id) => HasFollowUp(d[a].id)
        /\ (HasFollowUp(d[a].id) /\ HasFollowUp(d[b].id))
               => NewestFollowUp(d[a].id) >= NewestFollowUp(d[b].id)
        /\ (~HasFollowUp(d[a].id) /\ ~HasFollowUp(d[b].id))
               => OwnCreatedAt(d[a].id) >= OwnCreatedAt(d[b].id)

AllCustomersOnce(d) ==
    /\ Len(d) = Cardinality(customers)
    /\ Ids(d) = {c.id : c \in customers}

\* C7: the customer list aggregation returns a permutation of all customers in
\* the two-tier order, each entry with the customer's newest follow-up as its
\* latestFollowUpRecord (none for a customer without follow-ups).
C7_TwoTierOrder ==
    \A r \in Reqs :
        (req[r].kind = "getCustomers" /\ req[r].status = 200) =>
            LET d == req[r].data
            IN  /\ AllCustomersOnce(d)
                /\ TwoTier(d)
                /\ \A k \in 1..Len(d) :
                     IF HasFollowUp(d[k].id)
                     THEN /\ d[k].latestFollowUpRecord # <<>>
                          /\ \E f \in followUps :
                               /\ f.id = d[k].latestFollowUpRecord[1].id
                               /\ f.customerId = d[k].id
                               /\ f.createdAt = NewestFollowUp(d[k].id)
                          /\ GetTime(d[k].latestFollowUpRecord[1].createdAt)
                                = NewestFollowUp(d[k].id)
                     ELSE d[k].latestFollowUpRecord = <<>>

\* B followed up at 2, A followed up at 1 and created before B, C never
\* followed up: the list is [B, A, C].
C7_Witness ==
    \E r \in Reqs :
        /\ req[r].kind = "getCustomers" /\ req[r].status = 200
        /\ Len(req[r].data) = 3
        /\ HasFollowUp(req[r].data[1].id) /\ NewestFollowUp(req[r].data[1].id) = 2
        /\ HasFollowUp(req[r].data[2].id) /\ NewestFollowUp(req[r].data[2].id) = 1
        /\ OwnCreatedAt(req[r].data[2].id) < OwnCreatedAt(req[r].data[1].id)
        /\ ~HasFollowUp(req[r].data[3].id)

NoParameters(r) ==
    req[r].kind = "listCustomers" /\ req[r].page = 0 /\ req[r].limit = 0 /\ ~req[r].asc

C11_CreatesExactlyTheRequestedRows ==
    [][\A r \in Reqs :
          (IsCreateFollowUp(r) /\ req[r].status = 0 /\ req'[r].status = 201) =>
              LET newF == followUps' \ followUps
                  newA == attachments' \ attachments
                  newP == plans' \ plans
                  d == req'[r].data[1]
              IN  /\ followUps \subseteq followUps'
                  /\ attachments \subseteq attachments' /\ plans \subseteq plans'
                  /\ Cardinality(newF) = 1
                  /\ \A f \in newF : f.customerId = req[r].cid /\ f.id = d.id
                  /\ Cardinality(newA) = req[r].nAtt
                  /\ \A a \in newA : a.followUpRecordId = d.id
                  /\ Cardinality(newP) = IF req[r].due >= 0 THEN 1 ELSE 0
                  /\ \A p \in newP : /\ p.status = "PENDING"
                                     /\ p.followUpRecordId = d.id
                                     /\ p.customerId = req[r].cid
                                     /\ p.dueDate = req[r].due
                  /\ d.customerId = req[r].cid
                  /\ Len(d.attachments) = Cardinality(newA)
                  /\ {d.attachments[k] : k \in 1..Len(d.attachments)} = newA
                  /\ Len(d.nextStepPlans) = Cardinality(newP)
                  /\ {d.nextStepPlans[k] : k \in 1..Len(d.nextStepPlans)} = newP]_vars

\* One creation with attachments and a next step and one with neither have
\* both been answered 201.
C11_Witness ==
    /\ \E r \in Reqs :
         /\ IsCreateFollowUp(r) /\ req[r].status = 201
         /\ req[r].nAtt = MaxAtt /\ req[r].due >= 0
         /\ Len(req[r].data[1].attachments) = MaxAtt
         /\ Len(req[r].data[1].nextStepPlans) = 1
    /\ \E r \in Reqs :
         /\ IsCreateFollowUp(r) /\ req[r].status = 201
         /\ req[r].nAtt = 0 /\ req[r].due < 0
         /\ req[r].data[1].attachments = <<>> /\ req[r].data[1].nextStepPlans = <<>>

\* ------------------------------------------------- create, then read back
\* Bodies that pass createCustomerSchema: companyInfo and address may be
\* absent, empty or a text; email and phone absent or well-formed.
InfoInputs == {Undefined, "", "Acme"}
AddressInputs == {"", "1 Main Road"}

NextRoundTrip ==
    \E r \in Reqs :
        \/ StartCreateCustomerWith(r, {"x"}, InfoInputs, AddressInputs,
                                   {Undefined, "a@x.com"}, {"13800138000"})
        \/ CC_FindUser(r) \/ CC_CreateUser(r) \/ CC_CheckEmail(r) \/ CC_CheckPhone(r)
        \/ CC_Create(r, {0})
        \/ StartGetCustomer(r, {RowId(1, 1), RowId(2, 1)})
        \/ GD_FindUnique(r)

SpecRoundTrip == Init /\ [][NextRoundTrip]_vars

CustomerFields == {"name", "companyInfo", "email", "phone", "address"}

\* C12: a detail fetch answered after the creation of its customer was
\* answered finds the customer, and each of name, companyInfo, email, phone and
\* address is the value submitted and the value the creation returned.
C12_RoundTrip ==
    [][\A c, g \in Reqs :
          (/\ req[c].kind = "createCustomer" /\ req[c].status = 201
           /\ req[g].kind = "getCustomer" /\ req[g].status = 0 /\ req'[g].status # 0
           /\ req[g].cid = req[c].data.id)
          => /\ req'[g].status = 200
             /\ \A f \in CustomerFields :
                  /\ req'[g].data[f] = req[c][f]
                  /\ req'[g].data[f] = req[c].data[f]]_vars

\* What does hold: the customer is found, a field submitted as a non-empty text
\* comes back unchanged from both calls, and a field omitted or submitted empty
\* comes back null from the creation and absent from the detail fetch.
C12_RoundTripUpToEmpty ==
    [][\A c, g \in Reqs :
          (/\ req[c].kind = "createCustomer" /\ req[c].status = 201
           /\ req[g].kind = "getCustomer" /\ req[g].status = 0 /\ req'[g].status # 0
           /\ req[g].cid = req[c].data.id)
          => /\ req'[g].status = 200
             /\ \A f \in CustomerFields :
                  IF Truthy(req[c][f])
                  THEN req'[g].data[f] = req[c][f] /\ req[c].data[f] = req[c][f]
                  ELSE req'[g].data[f] = Undefined /\ req[c].data[f] = None]_vars

\* ------------------------------------------------ creating a duplicate
\* A customer that exists before any of the requests arrives.
ExistingCustomer ==
    [id |-> RowId(0, 1), name |-> "x", companyInfo |-> None, email |-> "a@x.com",
     phone |-> "13800138000", address |-> None, createdAt |-> 0, userId |-> RowId(0, 1)]

InitDuplicate ==
    /\ users = {[id |-> RowId(0, 1), email |-> SentinelEmail, role |-> Sales]}
    /\ customers = {ExistingCustomer}
    /\ followUps = {} /\ attachments = {} /\ plans = {}
    /\ clock = 0
    /\ req = [r \in Reqs |-> IdleReq]

NextDuplicate ==
    \E r \in Reqs :
        \/ StartCreateCustomer(r, {Undefined, "a@x.com", "b@x.com"},
                                  {Undefined, "13800138000", "13900139000"})
        \/ CC_FindUser(r) \/ CC_CheckEmail(r) \/ CC_CheckPhone(r) \/ CC_Create(r, {0})

SpecDuplicate == InitDuplicate /\ [][NextDuplicate]_vars

CreatedBy(r) == {c \in customers : c.id[1] = r}

\* A creation that carries the email or the phone of the customer that was
\* there before it is answered 400 and has added no row.
C13_DuplicateOfExisting ==
    \A r \in Reqs :
        (/\ req[r].kind = "createCustomer" /\ Done(r)
         /\ \/ req[r].email = ExistingCustomer.email
            \/ req[r].phone = ExistingCustomer.phone)
        => /\ req[r].status = 400
           /\ req[r].err \in {"emailInUse", "phoneInUse"}
           /\ req[r].email = ExistingCustomer.email => req[r].err = "emailInUse"
           /\ CreatedBy(r) = {}

\* The pre-check that finds its email or phone on a customer answers 400 and
\* writes nothing, and no creation gets to its insert past a check it owes.
C13_CheckStep ==
    \A r \in Reqs :
        (req[r].kind = "createCustomer" /\ req'[r] # req[r]) =>
            /\ (req[r].pc = "chkEmail" /\ \E c \in customers : c.email = req[r].email)
                   => (req'[r].status = 400 /\ UNCHANGED db)
            /\ (req[r].pc = "chkPhone" /\ \E c \in customers : c.phone = req[r].phone)
                   => (req'[r].status = 400 /\ UNCHANGED db)
            /\ req'[r].status = 400 => UNCHANGED db
            /\ (req'[r].pc = "create" /\ Truthy(req[r].email))
                   => req[r].pc \in {"chkEmail", "chkPhone"}
            /\ (req'[r].pc = "create" /\ Truthy(req[r].phone)) => req[r].pc = "chkPhone"

\* C13: a POST /customers whose email or phone is that of an existing customer
\* is rejected with 400 and adds no customer row, whichever of the two fields
\* is the used one.
C13_DuplicateRejected == []C13_DuplicateOfExisting /\ [][C13_CheckStep]_vars

\* A new email with a used phone was rejected, a used email was rejected, and a
\* creation with a new email and a new phone went through.
C13_Witness ==
    /\ \E r \in Reqs : /\ req[r].kind = "createCustomer" /\ req[r].status = 400
                       /\ req[r].email = "b@x.com" /\ req[r].phone = ExistingCustomer.phone
                       /\ req[r].err = "phoneInUse"
    /\ \E r \in Reqs : /\ req[r].kind = "createCustomer" /\ req[r].status = 400
                       /\ req[r].email = ExistingCustomer.email /\ req[r].err = "emailInUse"
    /\ \E r \in Reqs : /\ req[r].kind = "createCustomer" /\ req[r].status = 201
                       /\ CreatedBy(r) # {}

\* C14: a duplicate email or phone gets the same answer whether the pre-check
\* finds it or only the insert meets it (the loser of a race, whose pre-check
\* ran before the winner's insert): status 400 with the message of the
\* pre-check, and no row added.
C14_SameAnswerOnBothPaths ==
    [][\A r \in Reqs :
          (/\ req[r].kind = "createCustomer" /\ req'[r] # req[r]
           /\ req[r].pc \in {"chkEmail", "chkPhone", "create"})
          => /\ (Truthy(req[r].email) /\ \E c \in customers : c.email = req[r].email)
                   => (req'[r].status = 400 /\ req'[r].err = "emailInUse"
                       /\ UNCHANGED db)
             /\ (/\ Truthy(req[r].phone) /\ req[r].pc # "chkEmail"
                 /\ ~\E c \in customers : c.email = req[r].email
                 /\ \E c \in customers : c.phone = req[r].phone)
                   => (req'[r].status = 400 /\ req'[r].err = "phoneInUse"
                       /\ UNCHANGED db)]_vars

\* ------------------------------------------- handleDatabaseError (lib/prisma)
\* An error message is a sequence of fragments; message.includes(p) asks for
\* the fragment p.  The first three fragments are the patterns the translator
\* knows, the others are what a driver may say besides.
UniqueConstraint == "Unique constraint"
ForeignKeyConstraint == "Foreign key constraint"
RecordToUpdateMissing == "Record to update does not exist"
Fragments ==
    {UniqueConstraint, ForeignKeyConstraint, RecordToUpdateMissing,
     "Can't reach database server at db:5432", "password authentication failed for user"}
Messages == UNION {[1..n -> Fragments] : n \in 0..MaxMsgLen}
Includes(message, pattern) == \E k \in 1..Len(message) : message[k] = pattern

\* What a catch block may hold: an Error with a message, or any other value.
ThrownValues == {[isError |-> b, message |-> m] : b \in BOOLEAN, m \in Messages}

\* The translator's fixed messages.
DataExists == <<"data exists, do not submit again">>
RelatedMissing == <<"related data does not exist">>
RecordMissing == <<"the record to update does not exist">>
OperationFailed == <<"database operation failed, try again later">>

HandleDatabaseError(error) ==
    IF error.isError
    THEN IF Includes(error.message, UniqueConstraint) THEN DataExists
         ELSE IF Includes(error.message, ForeignKeyConstraint) THEN RelatedMissing
         ELSE IF Includes(error.message, RecordToUpdateMissing) THEN RecordMissing
         ELSE error.message
    ELSE OperationFailed

\* A handler whose database call throws ...
StartThrow(r, thrown) ==
    /\ CanStart(r)
    /\ \E e \in thrown :
         req' = [req EXCEPT ![r] = [IdleReq EXCEPT !.kind = "thrown", !.pc = "catch",
                                                   !.data = e]]
    /\ UNCHANGED <<db, clock>>

\* ... and its catch block: {success: false, error: handleDatabaseError(error)}, 500
CatchError(r) ==
    /\ req[r].kind = "thrown" /\ req[r].pc = "catch"
    /\ req' = [req EXCEPT ![r] = Respond(r, 500, "translated",
                                          [thrown |-> req[r].data,
                                           message |-> HandleDatabaseError(req[r].data)])]
    /\ UNCHANGED <<db, clock>>

NextErrors == \E r \in {1} : StartThrow(r, ThrownValues) \/ CatchError(r)

SpecErrors == Init /\ [][NextErrors]_vars

KnownPattern(message) ==
    \/ Includes(message, UniqueConstraint)
    \/ Includes(message, ForeignKeyConstraint)
    \/ Includes(message, RecordToUpdateMissing)

\* C15: the translator never passes an error message through: its result is
\* one of the three friendly messages or the generic one, and the generic one
\* for an error that matches none of the known patterns.
C15_NeverVerbatim ==
    \A r \in Reqs :
        (req[r].kind = "thrown" /\ req[r].status = 500) =>
            /\ req[r].data.message \in {DataExists, RelatedMissing, RecordMissing,
                                        OperationFailed}
            /\ ~KnownPattern(req[r].data.thrown.message)
                   => req[r].data.message = OperationFailed

\* What the translator does: the first known pattern decides for an Error, a
\* value that is no Error gets the generic message, and an Error without a known
\* pattern gets its own message back.
C15_TranslatesKnownPatterns ==
    \A r \in Reqs :
        (req[r].kind = "thrown" /\ req[r].status = 500) =>
            LET e == req[r].data.thrown
                m == req[r].data.message
            IN  /\ ~e.isError => m = OperationFailed
                /\ (e.isError /\ Includes(e.message, UniqueConstraint)) => m = DataExists
                /\ (e.isError /\ ~KnownPattern(e.message)) => m = e.message

\* ---------------------------------------------------- the default user
SentinelUsers == {u \in users : u.email = SentinelEmail}

\* At most one user has the sentinel email, it has the SALES role, it exists
\* once a creation has been answered 201, and every customer is linked to it.
C16_OneSentinelUser ==
    /\ Cardinality(SentinelUsers) <= 1
    /\ \A u \in SentinelUsers : u.role = "SALES"
    /\ \A c \in customers : \E u \in SentinelUsers : c.userId = u.id
    /\ (\E r \in Reqs : req[r].kind = "createCustomer" /\ req[r].status = 201)
           => Cardinality(SentinelUsers) = 1

\* C16: starting from an empty user table, under every interleaving of
\* customer creations exactly one sentinel user exists, every created customer
\* is linked to it, and every creation with non-conflicting input (no email, no
\* phone) succeeds.
C16_LookupOrCreate ==
    /\ C16_OneSentinelUser
    /\ \A r \in Reqs :
         (/\ req[r].kind = "createCustomer" /\ Done(r)
          /\ ~Truthy(req[r].email) /\ ~Truthy(req[r].phone))
         => req[r].status = 201

\* ------------------------------------------------------ updating a customer
\* Another customer, with an email and a phone of its own.
OtherCustomer ==
    [id |-> RowId(0, 2), name |-> "z", companyInfo |-> "Acme", email |-> "b@x.com",
     phone |-> "13900139000", address |-> None, createdAt |-> 0, userId |-> RowId(0, 1)]

InitUpdate ==
    /\ users = {[id |-> RowId(0, 1), email |-> SentinelEmail, role |-> Sales]}
    /\ customers = {ExistingCustomer, OtherCustomer}
    /\ followUps = SomeFollowUps({1}) /\ attachments = {} /\ plans = SomePlans({1})
    /\ clock = 0
    /\ req = [r \in Reqs |-> IdleReq]

\* Two PUT requests, on either customer or on an id that does not exist.
NextUpdate ==
    \E r \in {1, 2} :
        \/ StartUpdateCustomerWith(r, {RowId(0, 1), RowId(0, 2), RowId(0, 3)},
                                   {Undefined, "y"}, {Undefined, ""}, {Undefined},
                                   {Undefined, "a@x.com", "b@x.com"},
                                   {Undefined, "13900139000"})
        \/ UC_Find(r) \/ UC_CheckEmail(r) \/ UC_CheckPhone(r) \/ UC_Update(r)

SpecUpdate == InitUpdate /\ [][NextUpdate]_vars

C17_Step(r) ==
    LET id == req[r].cid
        old == CustomerById(id)
    IN  /\ req'[r].status = 200 =>
              /\ CustomerExists(id)
              /\ \E new \in customers' :
                   /\ new.id = id
                   /\ customers' \ {new} = customers \ {old}
                   /\ \A f \in CustomerFields :
                        new[f] = IF req[r][f] = Undefined THEN old[f]
                                 ELSE OrNull(req[r][f])
                   /\ new.createdAt = old.createdAt /\ new.userId = old.userId
              /\ UNCHANGED <<users, followUps, attachments, plans>>
        /\ req'[r].status # 200 => UNCHANGED db
        /\ req'[r].status = 404 => ~CustomerExists(id)
        /\ (req[r].pc = "find" /\ ~CustomerExists(id)) => req'[r].status = 404
        /\ (/\ req[r].pc = "chkEmail"
            /\ \E c \in customers : c.id # id /\ c.email = req[r].email)
               => req'[r].status = 400
        /\ (/\ req[r].pc = "chkPhone"
            /\ \E c \in customers : c.id # id /\ c.phone = req[r].phone)
               => req'[r].status = 400
        /\ (/\ req[r].pc = "find" /\ CustomerExists(id)
            /\ req[r].email \in {Undefined, old.email}
            /\ req[r].phone \in {Undefined, old.phone})
               => req'[r].pc = "update"
        /\ (req[r].pc = "update" /\ CustomerExists(id)) => req'[r].status = 200
        /\ (req'[r].pc = "update" /\ req[r].pc = "find" /\ Truthy(req[r].email))
               => req[r].email = old.email

NextCounts ==
    \E r \in Reqs :
        \/ StartCreateFollowUp(r, {RowId(0, 1), RowId(0, 2)}, {0}, {-1, 1})
        \/ FU_FindCustomer(r) \/ FU_FindUser(r) \/ FU_TxCreate(r, {0})
        \/ FU_TxPlan(r) \/ FU_TxCommit(r) \/ FU_TxFail(r)
        \/ StartGetCustomer(r, {RowId(0, 1)})
        \/ GD_FindUnique(r)

SpecCounts == InitDatabase(MaxCust, {}) /\ [][NextCounts]_vars

\* The creations for customer id that have committed, and those with a plan.
CommittedFor(id) ==
    {q \in Reqs : IsCreateFollowUp(q) /\ req[q].cid = id /\ req[q].status = 201}

\* C18: the counts a detail fetch returns are the numbers of follow-up records
\* and of plans that reference its customer: as many as creations for that
\* customer have committed (with a next step, for the plans), whatever was
\* created for the other customer and whatever is still uncommitted.
C18_CountsAreActual ==
    [][\A g \in Reqs :
          (req[g].kind = "getCustomer" /\ req[g].status = 0 /\ req'[g].status = 200) =>
              LET n == req'[g].data.count
                  id == req[g].cid
              IN  /\ n.followUpRecords = Cardinality({f \in followUps : f.customerId = id})
                  /\ n.nextStepPlans = Cardinality({p \in plans : p.customerId = id})
                  /\ n.followUpRecords = Cardinality(CommittedFor(id))
                  /\ n.nextStepPlans =
                       Cardinality({q \in CommittedFor(id) : req[q].due >= 0})]_vars

\* After one follow-up with a next step for the customer and one follow-up for
\* the other customer, the detail shows 1 and 1.
C18_Witness ==
    \E g \in Reqs :
        /\ req[g].kind = "getCustomer" /\ req[g].status = 200
        /\ req[g].data.count = [followUpRecords |-> 1, nextStepPlans |-> 1]
        /\ Cardinality(followUps) = 2
        /\ \E f \in followUps : f.customerId # req[g].cid

\* ------------------------------------------------------------- seeding
\* GET and POST /api/init-db on a fresh database, with every kind of secret.
NextInit ==
    \E r \in Reqs :
        \/ StartInitDbWith(r, {"GET", "POST"}, {Absent, Wrong, Valid}, {TRUE, FALSE})
        \/ IS_Check(r) \/ IS_UpsertUser(r) \/ IS_CreateCustomer(r, {0})
        \/ IS_CreateRecord(r, {0}) \/ IS_CreatePlan(r)

SpecInit == Init /\ [][NextInit]_vars

Unauthorized(r) == req[r].kind = "initDb" /\ req[r].secret \in {Absent, Wrong}

\* C19: an init-db request, GET or POST, that carries no secret or a wrong one
\* is answered 401, and no step of it writes to the database.
C19_SecretGated ==
    [][\A r \in Reqs :
          (Unauthorized(r) /\ req'[r] # req[r])
          => (UNCHANGED db /\ req'[r].status = 401)]_vars

\* What holds: no step of such a request writes, a POST and a GET with a wrong
\* secret are answered 401, and a GET without the parameter is answered 200
\* with the row counts of the four tables.
C19_NoWriteWithoutSecret ==
    [][\A r \in Reqs :
          (Unauthorized(r) /\ req'[r] # req[r])
          => /\ UNCHANGED db
             /\ req'[r].status = IF req[r].method = "GET" /\ req[r].secret = Absent
                                 THEN 200 ELSE 401]_vars

SeedCustomers(i) == {c \in customers : c.email = SeedEmails[i]}

\* C20: under any interleaving of authorized init-db requests the seed data is
\* applied at most once (no seed customer email appears twice, so never more
\* than the seed customers), and an authorized request that finds the seed
\* marker writes nothing and reports 'already initialized'.
C20_SeedsAtMostOnce ==
    /\ [](\A i \in 1..SeedCustomerCount : Cardinality(SeedCustomers(i)) <= 1)
    /\ [][\A r \in Reqs :
            (/\ req[r].kind = "initDb" /\ req[r].pc = "check" /\ req[r].secretOk
             /\ UserEmailTaken(SentinelEmail) /\ req'[r] # req[r])
            => (UNCHANGED db /\ req'[r].err = "already_initialized")]_vars

\* What holds: the repeated request is a no-op once the marker is written, the
\* marker itself is never doubled, and requests that do not overlap seed once.
C20_RepeatIsNoOp ==
    /\ [](Cardinality(SentinelUsers) <= 1)
    /\ [][\A r \in Reqs :
            (/\ req[r].kind = "initDb" /\ req[r].pc = "check" /\ req[r].secretOk
             /\ UserEmailTaken(SentinelEmail) /\ req'[r] # req[r])
            => (UNCHANGED db /\ req'[r].status = 200
                /\ req'[r].err = "already_initialized")]_vars

\* ------------------------------------------------------- the time window
\* Authorized requests before, at and after the end of the hour, with and
\* without the deployment-time variable.
Arrivals == {0, OneHour, OneHour + 1}

NextWindow ==
    \E r \in {1, 2} :
        \/ StartInitDbAt(r, {"GET", "POST"}, {Valid}, {NoDeploymentTime, DeploymentTime},
                         Arrivals, {0, 1})
        \/ IS_Check(r) \/ IS_UpsertUser(r) \/ IS_CreateCustomer(r, {0})
        \/ IS_CreateRecord(r, {0}) \/ IS_CreatePlan(r)

SpecWindow == Init /\ [][NextWindow]_vars

\* The time-window check of an authorized request on an uninitialized database.
WindowCheck(r) ==
    /\ req[r].kind = "initDb" /\ req[r].pc = "check" /\ req[r].secretOk
    /\ ~UserEmailTaken(SentinelEmail)
    /\ req'[r] # req[r]

Late(r) == req[r].now - DeployedAt > OneHour

\* C21: an authorized request on an uninitialized database more than one hour
\* after the deployment is answered 403 and writes nothing, with or without the
\* deployment-time variable; a request within the hour goes on to seed.
C21_TimeWindowed ==
    [][\A r \in Reqs :
          WindowCheck(r) =>
             IF Late(r) THEN UNCHANGED db /\ req'[r].status = 403
             ELSE req'[r].pc = "upsertUser"]_vars

\* What holds: the window is enforced exactly when the variable is set; without
\* it every authorized request on an uninitialized database goes on to seed.
C21_WindowOnlyWithVariable ==
    [][\A r \in Reqs :
          WindowCheck(r) =>
             IF Late(r) /\ req[r].env # NoDeploymentTime
             THEN UNCHANGED db /\ req'[r].status = 403
             ELSE req'[r].pc = "upsertUser"]_vars

\* ------------------------------------------------- POST /api/migrate
\* The constraints of a schema that the persisted-state rules rest on.
\* migration.sql: CREATE UNIQUE INDEX "users_email_key", and every foreign key
\* with ON DELETE CASCADE.
MigrationSchema == [uniqueUserEmail |-> TRUE, foreignKeys |-> TRUE, cascade |-> TRUE]
\* The raw SQL of the migrate endpoint: CREATE INDEX IF NOT EXISTS
\* "users_email_key" (not unique), and no foreign key at all.
RawMigrateSchema == [uniqueUserEmail |-> FALSE, foreignKeys |-> FALSE, cascade |-> FALSE]

\* The secret the migrate endpoint always accepts, and values of SEED_SECRET
\* and of the body's secret field.
MigrateSecret == "migrate-database-2024"
SeedSecret == "s3cret"
SeedSecretEnv(env) == IF env = {} THEN Undefined ELSE CHOOSE v \in env : TRUE

\* The body of the request: None is a body that is no JSON object, Undefined a
\* JSON object without a secret field.
MigrateBodies == {None, Undefined, Wrong, SeedSecret, MigrateSecret}

\* `deploy` is the handler that runs `prisma migrate deploy`, `raw` the one that
\* creates the tables with $executeRaw.
StartMigrate(r, handlers, bodies, envs) ==
    /\ CanStart(r)
    /\ \E h \in handlers, b \in bodies, e \in envs :
         req' = [req EXCEPT ![r] = [IdleReq EXCEPT !.kind = "migrate", !.pc = "check",
                                                   !.method = h, !.secret = b, !.env = e]]
    /\ UNCHANGED <<db, clock>>

\* if (secret !== process.env.SEED_SECRET && secret !== 'migrate-database-2024')
MigrateRefused(secret, env) == secret # SeedSecretEnv(env) /\ secret # MigrateSecret

\* const { secret } = await request.json(), then the comparison.
MG_Check(r) ==
    /\ req[r].kind = "migrate" /\ req[r].pc = "check"
    /\ req' = [req EXCEPT ![r] =
                 IF req[r].secret = None THEN Respond(r, 500, "migrateRequestFailed", <<>>)
                 ELSE IF MigrateRefused(req[r].secret, req[r].env)
                      THEN Respond(r, 401, "unauthorizedMigration", <<>>)
                 ELSE [req[r] EXCEPT !.pc = "execute"]]
    /\ UNCHANGED <<db, clock>>

\* execSync('npx prisma migrate deploy') or the CREATE TABLE statements: they
\* succeed and leave their schema, or throw.
MG_Execute(r) ==
    /\ req[r].kind = "migrate" /\ req[r].pc = "execute"
    /\ \E ok \in BOOLEAN :
         req' = [req EXCEPT ![r] =
                   IF ok THEN Respond(r, 200, "migrated",
                                      IF req[r].method = "deploy" THEN MigrationSchema
                                                                  ELSE RawMigrateSchema)
                   ELSE Respond(r, 500, "migrationFailed", <<>>)]
    /\ UNCHANGED <<db, clock>>

NextMigrate ==
    \E r \in Reqs :
        \/ StartMigrate(r, {"deploy", "raw"}, MigrateBodies, {{}, {SeedSecret}})
        \/ MG_Check(r) \/ MG_Execute(r)

SpecMigrate == Init /\ [][NextMigrate]_vars

MigrateChecked(r) == req[r].kind = "migrate" /\ req[r].pc = "check" /\ req'[r] # req[r]

\* C22: POST /api/migrate executes only when the body carries the correct
\* secret; a body without a secret field is answered 401 and executes nothing,
\* whether SEED_SECRET is set or not.
C22_MigrateSecretGated ==
    [][\A r \in Reqs :
          MigrateChecked(r) =>
             /\ req[r].secret = Undefined => req'[r].status = 401
             /\ req'[r].pc = "execute" => req[r].secret \in {SeedSecret, MigrateSecret}]_vars

\* What holds: with SEED_SECRET set a body without the field is answered 401;
\* a wrong secret is answered 401 under both configurations; nothing executes
\* after a 401.
C22_GatedWhenSecretSet ==
    [][\A r \in Reqs :
          MigrateChecked(r) =>
             /\ (req[r].secret = Undefined /\ req[r].env # {}) => req'[r].status = 401
             /\ req[r].secret = Wrong => req'[r].status = 401
             /\ req'[r].status = 401 => req'[r].pc = "done"]_vars

\* ------------------------------------------------------ POST /api/upload
\* Strings the handler searches are sequences of characters: String.includes
\* and String.startsWith.
StrIncludes(str, part) ==
    \E k \in 1..(Len(str) - Len(part) + 1) : SubSeq(str, k, k + Len(part) - 1) = part
StartsWith(str, prefix) ==
    Len(str) >= Len(prefix) /\ SubSeq(str, 1, Len(prefix)) = prefix

\* The MIME types of ALLOWED_FILE_TYPES, in the order of the source.
\* 'image/jpeg'
ImageJpeg == <<"i", "m", "a", "g", "e", "/", "j", "p", "e", "g">>
\* 'image/png'
ImagePng == <<"i", "m", "a", "g", "e", "/", "p", "n", "g">>
\* 'image/gif'
ImageGif == <<"i", "m", "a", "g", "e", "/", "g", "i", "f">>
\* 'image/webp'
ImageWebp == <<"i", "m", "a", "g", "e", "/", "w", "e", "b", "p">>
\* 'application/pdf'
ApplicationPdf == <<"a", "p", "p", "l", "i", "c", "a", "t", "i", "o", "n", "/", "p", "d", "f">>
\* 'application/msword'
ApplicationMsword ==
    <<"a", "p", "p", "l", "i", "c", "a", "t", "i", "o", "n", "/", "m", "s", "w", "o", "r", "d">>
\* 'application/vnd.openxmlformats-officedocument.wordprocessingml.document'
WordprocessingmlDocument ==
    <<"a", "p", "p", "l", "i", "c", "a", "t", "i", "o", "n", "/", "v", "n", "d", ".", "o", "p",
      "e", "n", "x", "m", "l", "f", "o", "r", "m", "a", "t", "s", "-", "o", "f", "f", "i", "c",
      "e", "d", "o", "c", "u", "m", "e", "n", "t", ".", "w", "o", "r", "d", "p", "r", "o", "c",
      "e", "s", "s", "i", "n", "g", "m", "l", ".", "d", "o", "c", "u", "m", "e", "n", "t">>
\* 'application/vnd.ms-excel'
ApplicationMsExcel ==
    <<"a", "p", "p", "l", "i", "c", "a", "t", "i", "o", "n", "/", "v", "n", "d", ".", "m", "s",
      "-", "e", "x", "c", "e", "l">>
\* 'application/vnd.openxmlformats-officedocument.spreadsheetml.sheet'
SpreadsheetmlSheet ==
    <<"a", "p", "p", "l", "i", "c", "a", "t", "i", "o", "n", "/", "v", "n", "d", ".", "o", "p",
      "e", "n", "x", "m", "l", "f", "o", "r", "m", "a", "t", "s", "-", "o", "f", "f", "i", "c",
      "e", "d", "o", "c", "u", "m", "e", "n", "t", ".", "s", "p", "r", "e", "a", "d", "s", "h",
      "e", "e", "t", "m", "l", ".", "s", "h", "e", "e", "t">>
\* 'text/plain'
TextPlain == <<"t", "e", "x", "t", "/", "p", "l", "a", "i", "n">>
ALLOWED_FILE_TYPES ==
    {ImageJpeg, ImagePng, ImageGif, ImageWebp, ApplicationPdf,
     ApplicationMsword, WordprocessingmlDocument, ApplicationMsExcel, SpreadsheetmlSheet, TextPlain}

\* Types outside the list: an executable ('application/x-msdownload') and
\* 'image/svg+xml'.
ApplicationMsdownload ==
    <<"a", "p", "p", "l", "i", "c", "a", "t", "i", "o", "n", "/", "x", "-", "m", "s", "d", "o",
      "w", "n", "l", "o", "a", "d">>
ImageSvg == <<"i", "m", "a", "g", "e", "/", "s", "v", "g", "+", "x", "m", "l">>

\* The fragments getFileTypeCategory looks for.
ImageSlash == <<"i", "m", "a", "g", "e", "/">>
Pdf == <<"p", "d", "f">>
Word == <<"w", "o", "r", "d">>
Document == <<"d", "o", "c", "u", "m", "e", "n", "t">>
Excel == <<"e", "x", "c", "e", "l">>
Spreadsheet == <<"s", "p", "r", "e", "a", "d", "s", "h", "e", "e", "t">>
TextSlash == <<"t", "e", "x", "t", "/">>

\* const MAX_FILE_SIZE = 5 * 1024 * 1024
MAX_FILE_SIZE == 5242880
MegaByte == 1048576

TypeNotSupported == "typeNotSupported"
SizeExceeded == "sizeExceeded"

\* validateFile: the type first, then the size; a validation with `>=` would
\* turn away a file of exactly the maximum.
ValidateFile_BelowMax(file) ==
    IF file.type \notin ALLOWED_FILE_TYPES
    THEN [isValid |-> FALSE, error |-> TypeNotSupported]
    ELSE IF file.size >= MAX_FILE_SIZE
         THEN [isValid |-> FALSE, error |-> SizeExceeded]
    ELSE [isValid |-> TRUE, error |-> Undefined]
ValidateFile(file) ==
    IF file.type \notin ALLOWED_FILE_TYPES
    THEN [isValid |-> FALSE, error |-> TypeNotSupported]
    ELSE IF file.size > MAX_FILE_SIZE
         THEN [isValid |-> FALSE, error |-> SizeExceeded]
    ELSE [isValid |-> TRUE, error |-> Undefined]

GetFileTypeCategory(mimeType) ==
    IF StartsWith(mimeType, ImageSlash) THEN "image"
    ELSE IF StrIncludes(mimeType, Pdf) THEN "pdf"
    ELSE IF StrIncludes(mimeType, Word) \/ StrIncludes(mimeType, Document) THEN "document"
    ELSE IF StrIncludes(mimeType, Excel) \/ StrIncludes(mimeType, Spreadsheet)
         THEN "spreadsheet"
    ELSE IF StartsWith(mimeType, TextSlash) THEN "text"
    ELSE "other"

\* formData.get('file'): a file with its type and size, or nothing.
NoFile == [present |-> FALSE, type |-> <<>>, size |-> 0]
SomeFile(type, size) == [present |-> TRUE, type |-> type, size |-> size]

\* process.env.BLOB_READ_WRITE_TOKEN, set or not.
BlobToken == {"token"}

StartUpload(r, envs, files) ==
    /\ CanStart(r)
    /\ \E e \in envs, f \in files :
         req' = [req EXCEPT ![r] = [IdleReq EXCEPT !.kind = "upload", !.pc = "validate",
                                                   !.env = e, !.file = f]]
    /\ UNCHANGED <<db, clock>>

\* checkBlobEnvironment, formData.get('file'), validateFile.
UP_Validate(r) ==
    /\ req[r].kind = "upload" /\ req[r].pc = "validate"
    /\ req' = [req EXCEPT ![r] =
                 IF req[r].env = {} THEN Respond(r, 500, "blobNotConfigured", <<>>)
                 ELSE IF ~req[r].file.present THEN Respond(r, 400, "noFile", <<>>)
                 ELSE IF ~ValidateFile(req[r].file).isValid
                      THEN Respond(r, 400, "fileValidationFailed",
                                   [field |-> "file", message |-> ValidateFile(req[r].file).error])
                 ELSE [req[r] EXCEPT !.pc = "put"]]
    /\ UNCHANGED <<db, clock>>

\* put(uniqueFileName, file, {access: 'public', token}): the file is stored and
\* described in the response, or the call throws.
UP_Put(r) ==
    /\ req[r].kind = "upload" /\ req[r].pc = "put"
    /\ \E ok \in BOOLEAN :
         req' = [req EXCEPT ![r] =
                   IF ok THEN Respond(r, 200, None,
                                      [fileType |-> GetFileTypeCategory(req[r].file.type),
                                       fileSize |-> req[r].file.size])
                   ELSE Respond(r, 500, "uploadFailed", <<>>)]
    /\ UNCHANGED <<db, clock>>

FileTypes == ALLOWED_FILE_TYPES \cup {ApplicationMsdownload, ImageSvg}
FileSizes == {2 * MegaByte, MAX_FILE_SIZE, MAX_FILE_SIZE + 1, 6 * MegaByte}
Files == {NoFile} \cup {SomeFile(t, n) : t \in FileTypes, n \in FileSizes}

NextUpload ==
    \E r \in {1, 2} :
        \/ StartUpload(r, {{}, BlobToken}, Files)
        \/ UP_Validate(r) \/ UP_Put(r)

SpecUpload == Init /\ [][NextUpload]_vars

Upload(r) == req[r].kind = "upload"
Acceptable(file) == file.type \in ALLOWED_FILE_TYPES /\ file.size <= MAX_FILE_SIZE

\* C23: an uploaded file goes to blob storage if and only if its type is in the
\* allow-list and its size is at most 5 MB (exactly 5 MB is accepted); a file of
\* a type outside the list and a file that is only too large are answered 400
\* with different messages; without the storage token the answer is 500; and
\* nothing is put for a request that was turned away.
C23_UploadValidation ==
    [][\A r \in Reqs :
          (Upload(r) /\ req[r].pc = "validate" /\ req'[r] # req[r]) =>
             LET file == req[r].file
                 sent == req'[r].pc = "put"
             IN  /\ req[r].env = {} => (req'[r].status = 500 /\ ~sent)
                 /\ (req[r].env # {} /\ file.present) =>
                       /\ sent <=> Acceptable(file)
                       /\ file.type \notin ALLOWED_FILE_TYPES =>
                             /\ req'[r].status = 400
                             /\ req'[r].data.message = TypeNotSupported
                       /\ (file.type \in ALLOWED_FILE_TYPES /\ file.size > MAX_FILE_SIZE) =>
                             /\ req'[r].status = 400
                             /\ req'[r].data.message = SizeExceeded
                 /\ req'[r].status # 0 => req'[r].pc = "done"]_vars

\* A file of exactly 5 MB has been stored and a file one byte larger refused.
C23_Witness ==
    /\ Upload(1) /\ req[1].status = 200 /\ req[1].file.size = MAX_FILE_SIZE
    /\ Upload(2) /\ req[2].status = 400 /\ req[2].file.size = MAX_FILE_SIZE + 1
    /\ req[2].data.message = SizeExceeded

\* The category each type of the allow-list is meant to have.
IntendedCategory(type) ==
    IF type \in {ImageJpeg, ImagePng, ImageGif, ImageWebp} THEN "image"
    ELSE IF type = ApplicationPdf THEN "pdf"
    ELSE IF type \in {ApplicationMsword, WordprocessingmlDocument} THEN "document"
    ELSE IF type \in {ApplicationMsExcel, SpreadsheetmlSheet} THEN "spreadsheet"
    ELSE IF type = TextPlain THEN "text"
    ELSE "other"

Uploaded(r) == Upload(r) /\ req[r].status = 200

\* C26: the category returned for an uploaded file of an allowed type is the
\* intended one: images 'image', PDF 'pdf', both Word types 'document', both
\* Excel types 'spreadsheet', plain text 'text', and never 'other'.
C26_IntendedCategory ==
    \A r \in Reqs :
        Uploaded(r) => /\ req[r].data.fileType = IntendedCategory(req[r].file.type)
                       /\ req[r].data.fileType # "other"

\* What holds: every allowed type but the OpenXML spreadsheet type gets its
\* intended category, that one gets 'document', and none gets 'other'.
C26_CategoryButSpreadsheetml ==
    \A r \in Reqs :
        Uploaded(r) => /\ req[r].data.fileType =
                             IF req[r].file.type = SpreadsheetmlSheet THEN "document"
                             ELSE IntendedCategory(req[r].file.type)
                       /\ req[r].data.fileType # "other"

\* ------------------------------------------------- the bootstrap paths
\* POST of the raw-SQL init route and the setup script: users.email TEXT UNIQUE,
\* and no foreign key at all.
RawInitSchema == [uniqueUserEmail |-> TRUE, foreignKeys |-> FALSE, cascade |-> FALSE]
SetupScriptSchema == [uniqueUserEmail |-> TRUE, foreignKeys |-> FALSE, cascade |-> FALSE]

BootstrapPaths == {"prismaMigrate", "rawInit", "rawMigrate", "setupScript"}
SchemaOf(path) ==
    CASE path = "prismaMigrate" -> MigrationSchema
      [] path = "rawInit" -> RawInitSchema
      [] path = "rawMigrate" -> RawMigrateSchema
      [] path = "setupScript" -> SetupScriptSchema

\* One of the paths creates the tables of the empty database; its answer is
\* kept in the first slot.
CreateTables(paths) ==
    /\ req[1].kind = "idle"
    /\ \E path \in paths :
         req' = [req EXCEPT ![1] = [Respond(1, 200, "tablesCreated", SchemaOf(path))
                                       EXCEPT !.kind = "bootstrap", !.method = path]]
    /\ UNCHANGED <<db, clock>>

Bootstrapped == req[1].kind = "bootstrap"
Schema == req[1].data

\* Statements against the tables, as the schema in force lets them act.
FreshIds(n, rows) == {RowId(0, k) : k \in 1..n} \ {row.id : row \in rows}

SQL_InsertUser(emails) ==
    /\ Bootstrapped
    /\ \E id \in FreshIds(MaxCust, users), e \in emails :
         /\ ~(Schema.uniqueUserEmail /\ UserEmailTaken(e))
         /\ users' = users \cup {[id |-> id, email |-> e, role |-> Sales]}
    /\ UNCHANGED <<customers, followUps, attachments, plans, clock, req>>

SQL_InsertCustomer ==
    /\ Bootstrapped
    /\ \E id \in FreshIds(MaxCust, customers) :
         LET row == [id |-> id, name |-> "x", companyInfo |-> None, email |-> None,
                     phone |-> None, address |-> None, createdAt |-> 0,
                     userId |-> RowId(0, 1)]
         IN  /\ \A f \in followUps : f.customerId # id
             /\ \A q \in plans : q.customerId # id
             /\ ~(Schema.foreignKeys /\ ~UserExists(row.userId))
             /\ customers' = customers \cup {row}
    /\ UNCHANGED <<users, followUps, attachments, plans, clock, req>>

SQL_InsertFollowUp ==
    /\ Bootstrapped
    /\ \E id \in FreshIds(MaxCust, followUps), k \in 1..MaxCust :
         LET row == [id |-> id, customerId |-> RowId(0, k), userId |-> RowId(0, 1),
                     createdAt |-> 0]
         IN  /\ \A a \in attachments : a.followUpRecordId # id
             /\ \A q \in plans : q.followUpRecordId # id
             /\ ~(Schema.foreignKeys /\ ~FkFollowUpOk(row))
             /\ followUps' = followUps \cup {row}
    /\ UNCHANGED <<users, customers, attachments, plans, clock, req>>

SQL_InsertAttachment ==
    /\ Bootstrapped
    /\ \E id \in FreshIds(1, attachments), f \in followUps :
         attachments' = attachments \cup
                           {[id |-> id, followUpRecordId |-> f.id, createdAt |-> 0]}
    /\ UNCHANGED <<users, customers, followUps, plans, clock, req>>

SQL_InsertPlan ==
    /\ Bootstrapped
    /\ \E id \in FreshIds(1, plans), f \in followUps :
         /\ ~(Schema.foreignKeys /\ ~CustomerExists(f.customerId))
         /\ plans' = plans \cup
                        {[id |-> id, followUpRecordId |-> f.id, customerId |-> f.customerId,
                          userId |-> f.userId, dueDate |-> 1, status |-> Pending]}
    /\ UNCHANGED <<users, customers, followUps, attachments, clock, req>>

\* DELETE FROM customers WHERE id = ...: the rows that hang on the customer go
\* with it where the foreign keys say ON DELETE CASCADE, and stay otherwise.
SQL_DeleteCustomer ==
    /\ Bootstrapped
    /\ \E c \in customers :
         /\ customers' = customers \ {c}
         /\ followUps' = IF Schema.cascade THEN followUps \ CascadeFollowUps(c.id)
                         ELSE followUps
         /\ attachments' = IF Schema.cascade THEN attachments \ CascadeAttachments(c.id)
                           ELSE attachments
         /\ plans' = IF Schema.cascade THEN plans \ CascadePlans(c.id) ELSE plans
    /\ UNCHANGED <<users, clock, req>>

NextSchema ==
    \/ CreateTables(BootstrapPaths)
    \/ SQL_InsertUser({SentinelEmail})
    \/ SQL_InsertCustomer
    \/ SQL_InsertFollowUp
    \/ SQL_InsertAttachment
    \/ SQL_InsertPlan
    \/ SQL_DeleteCustomer

SpecSchema == Init /\ [][NextSchema]_vars

NoOrphans ==
    /\ \A f \in followUps : CustomerExists(f.customerId)
    /\ \A a \in attachments : \E f \in followUps : f.id = a.followUpRecordId
    /\ \A q \in plans : /\ CustomerExists(q.customerId)
                        /\ \E f \in followUps : f.id = q.followUpRecordId
UniqueUserEmail == \A u1, u2 \in users : u1.email = u2.email => u1 = u2

\* C24: whichever bootstrap path created the tables, deleting a customer
\* removes its follow-up records, their attachments and its plans, a follow-up
\* for a nonexistent customer is refused (no row is left without its parent),
\* and user email is unique.
C24_SameRulesOnEverySchema == NoOrphans /\ UniqueUserEmail

\* What holds: the rules hold on the schema of the Prisma migration; user email
\* is unique on every schema but the migrate endpoint's.
C24_RulesOnMigrationSchema ==
    Bootstrapped =>
       /\ Schema = MigrationSchema => (NoOrphans /\ UniqueUserEmail)
       /\ req[1].method # "rawMigrate" => UniqueUserEmail

\* ------------------------------------------------- failing database reads
\* getCustomers: catch (error) { console.error(...); return [] }
GC_ReadFails(r) ==
    /\ req[r].kind = "getCustomers" /\ req[r].pc = "findMany"
    /\ req' = [req EXCEPT ![r] = Respond(r, 200, None, <<>>)]
    /\ UNCHANGED <<db, clock>>

\* GET /customers/{id}: catch -> 500 with handleDatabaseError(error)
GD_ReadFails(r) ==
    /\ req[r].kind = "getCustomer" /\ req[r].pc = "findUnique"
    /\ req' = [req EXCEPT ![r] = Respond(r, 500, "dbFailure", <<req[r].pc>>)]
    /\ UNCHANGED <<db, clock>>

\* GET /customers/{id}/followups: catch -> 500
LF_ReadFails(r) ==
    /\ req[r].kind = "listFollowUps" /\ req[r].pc \in {"findCustomer", "findMany"}
    /\ req' = [req EXCEPT ![r] = Respond(r, 500, "dbFailure", <<req[r].pc>>)]
    /\ UNCHANGED <<db, clock>>

\* POST /customers/{id}/followups: catch -> 500 (the error is no ZodError)
FU_ReadFails(r) ==
    /\ req[r].kind = "createFollowUp" /\ req[r].pc \in {"findCustomer", "findUser"}
    /\ req' = [req EXCEPT ![r] = Respond(r, 500, "dbFailure", <<req[r].pc>>)]
    /\ UNCHANGED <<db, clock>>

\* The four core operations on a database with customers, each read of which
\* may fail.
NextFailures ==
    \E r \in {1, 2} :
        \/ StartGetCustomers(r)
        \/ GC_GetCustomers(r) \/ GC_ReadFails(r)
        \/ StartGetCustomer(r, {RowId(0, 1)})
        \/ GD_FindUnique(r) \/ GD_ReadFails(r)
        \/ StartListFollowUps(r, {RowId(0, 1)})
        \/ LF_FindCustomer(r) \/ LF_FindMany(r) \/ LF_ReadFails(r)
        \/ StartCreateFollowUp(r, {RowId(0, 1)}, {0}, {-1})
        \/ FU_FindCustomer(r) \/ FU_FindUser(r) \/ FU_TxCreate(r, {0})
        \/ FU_TxCommit(r) \/ FU_TxFail(r) \/ FU_ReadFails(r)

SpecFailures == InitDatabase(MaxCust, {1}) /\ [][NextFailures]_vars

\* C25: when its database read fails, the customer list aggregation, the
\* customer detail fetch, the follow-up listing and the follow-up creation each
\* yield an error result, never a success-shaped one.
C25_FailuresAreReported ==
    [][\A r \in Reqs :
          (GC_ReadFails(r) \/ GD_ReadFails(r) \/ LF_ReadFails(r) \/ FU_ReadFails(r)
           \/ FU_TxFail(r))
          => req'[r].status >= 400]_vars

\* What holds: the three API operations answer 500 when a read or the
\* transaction fails, and a list aggregation whose read fails yields the empty
\* list although the customers table is not empty.
C25_ApiFailuresAreReported ==
    [][\A r \in Reqs :
          /\ (GD_ReadFails(r) \/ LF_ReadFails(r) \/ FU_ReadFails(r) \/ FU_TxFail(r))
             => req'[r].status = 500
          /\ GC_ReadFails(r)
             => (req'[r].status = 200 /\ req'[r].data = <<>> /\ customers # {})]_vars

\* ------------------------------------------- rejected customer creations
\* createCustomerSchema: name z.string().min(1), email z.string().email()
\* optional, phone z.string().regex(/^1[3-9]\d{9}$/) optional.  Of the bodies
\* drawn here these emails and phones have the form asked for.
WellFormedEmails == {"a@x.com"}
WellFormedPhones == {"13800138000"}
CreateCustomerSchemaAccepts(body) ==
    /\ Truthy(body.name)
    /\ body.email = Undefined \/ body.email \in WellFormedEmails
    /\ body.phone = Undefined \/ body.phone \in WellFormedPhones

\* POST /customers with any body, valid or not.
StartPostCustomer(r, names, emails, phones) ==
    /\ CanStart(r)
    /\ \E n \in names, e \in emails, p \in phones :
         req' = [req EXCEPT ![r] = [IdleReq EXCEPT !.kind = "createCustomer",
                                                   !.pc = "parse", !.name = n,
                                                   !.email = e, !.phone = p]]
    /\ UNCHANGED <<db, clock>>

\* createCustomerSchema.parse(body): a ZodError is answered 400 by the catch
\* block; otherwise getOrCreateDefaultUser comes next.
CC_Parse(r) ==
    /\ req[r].kind = "createCustomer" /\ req[r].pc = "parse"
    /\ req' = [req EXCEPT ![r] =
                 IF CreateCustomerSchemaAccepts(req[r])
                 THEN [req[r] EXCEPT !.pc = "findUser"]
                 ELSE Respond(r, 400, "validationFailed", <<>>)]
    /\ UNCHANGED <<db, clock>>

NextReject ==
    \E r \in Reqs :
        \/ StartPostCustomer(r, {"", "x"}, {Undefined, "a@x.com", "not-an-email"},
                                {Undefined, "13800138000", "12345"})
        \/ CC_Parse(r)
        \/ CC_FindUser(r) \/ CC_CreateUser(r) \/ CC_CheckEmail(r) \/ CC_CheckPhone(r)
        \/ CC_Create(r, {0})

SpecReject == Init /\ [][NextReject]_vars

Rejected(r) == req[r].kind = "createCustomer" /\ req[r].status = 400
UsersCreatedBy(r) == {u \in users : u.id[1] = r}

\* C27: a POST /customers that ends in a validation error or in a duplicate
\* email/phone conflict has created no customer and no user.
C27_RejectedCreatesNothing ==
    \A r \in Reqs : Rejected(r) => (CreatedBy(r) = {} /\ UsersCreatedBy(r) = {})

\* What holds: a rejected creation has created no customer; one rejected for
\* its body has created nothing at all; and a user is created only by a request
\* that found none at its lookup.
C27_RejectedCreatesNoCustomer ==
    \A r \in Reqs :
        Rejected(r) => /\ CreatedBy(r) = {}
                       /\ req[r].err = "validationFailed" => UsersCreatedBy(r) = {}
                       /\ req[r].err \in {"validationFailed", "emailInUse", "phoneInUse"}

\* ------------------------------------------- the seed marker and the seed
\* The complete seed data set: every seed customer with its follow-up records
\* and its plan.
SeedComplete ==
    \A i \in 1..SeedCustomerCount :
        \E c \in customers :
            /\ c.email = SeedEmails[i]
            /\ Cardinality({f \in followUps : f.customerId = c.id}) >= SeedRecordsPerCustomer
            /\ \E q \in plans : q.customerId = c.id

InitDbChecked(r) ==
    /\ req[r].kind = "initDb" /\ req[r].pc = "check" /\ req[r].secretOk
    /\ ~IsStatusQuery(r)
    /\ req'[r] # req[r]

\* C28: an authorized init-db request answers 'already initialized' only when
\* the complete seed data set is present.
C28_AlreadyInitializedMeansSeeded ==
    [][\A r \in Reqs :
          (InitDbChecked(r) /\ req'[r].err = "already_initialized") => SeedComplete]_vars

\* What holds: 'already initialized' is answered exactly when a user with the
\* sentinel email exists, whoever created it and whatever else is there.
C28_AlreadyInitializedIffSentinel ==
    [][\A r \in Reqs :
          InitDbChecked(r) =>
             (req'[r].err = "already_initialized" <=> UserEmailTaken(SentinelEmail))]_vars

\* ------------------------------------------- the inline follow-up input
\* What handleFormSubmit reads is what the render that created it saw.
Captured(ui) ==
    [isValid |-> ui.isValid, isSubmitting |-> ui.isSubmitting,
     uploadedFiles |-> ui.uploadedFiles]

\* A render after a state change: useCallback keeps handleFormSubmit unless one
\* of [customerId, isValid, isSubmitting, onSubmit, reset, toast] has changed
\* (uploadedFiles is not among them); a component that lists uploadedFiles too
\* is Rendered_FilesInDeps.
Rendered_FilesInDeps(old, new) == [new EXCEPT !.closure = Captured(new)]
Rendered(old, new) ==
    [new EXCEPT !.closure =
        IF new.isValid # old.isValid \/ new.isSubmitting # old.isSubmitting
        THEN Captured(new) ELSE old.closure]

Input(r) == req[r].kind = "input"

FI_Mount(r) ==
    /\ CanStart(r)
    /\ req' = [req EXCEPT ![r] = [IdleReq EXCEPT !.kind = "input", !.pc = "mounted"]]
    /\ UNCHANGED <<db, clock>>

\* Typing in the textarea (disabled while submitting) makes the form valid or
\* invalid.
FI_EditContent(r) ==
    /\ Input(r) /\ ~req[r].ui.isSubmitting
    /\ LET ui == req[r].ui
       IN  req' = [req EXCEPT ![r].ui = Rendered(ui, [ui EXCEPT !.isValid = ~ui.isValid])]
    /\ UNCHANGED <<db, clock>>

\* handleFileSelect up to the fetch: setIsUploading(true).
FI_SelectFile(r) ==
    /\ Input(r) /\ ~req[r].ui.isSubmitting /\ ~req[r].ui.isUploading
    /\ req[r].ui.nextFile <= MaxFiles
    /\ LET ui == req[r].ui
       IN  req' = [req EXCEPT ![r].ui = Rendered(ui, [ui EXCEPT !.isUploading = TRUE])]
    /\ UNCHANGED <<db, clock>>

\* handleFileSelect after the fetch: setUploadedFiles(prev => [...prev, file]) or
\* the failure toast; finally setIsUploading(false).
FI_UploadDone(r) ==
    /\ Input(r) /\ req[r].ui.isUploading
    /\ \E ok \in BOOLEAN :
         LET ui == req[r].ui
             new == [ui EXCEPT !.isUploading = FALSE, !.nextFile = @ + 1,
                               !.uploadedFiles = IF ok THEN Append(@, ui.nextFile) ELSE @]
         IN  req' = [req EXCEPT ![r].ui = Rendered(ui, new)]
    /\ UNCHANGED <<db, clock>>

\* handleRemoveFile: setUploadedFiles(prev => prev.filter(file => file.id !== fileId))
FI_RemoveFile(r) ==
    /\ Input(r) /\ ~req[r].ui.isSubmitting
    /\ \E fileId \in {req[r].ui.uploadedFiles[k] : k \in 1..Len(req[r].ui.uploadedFiles)} :
         LET ui == req[r].ui
             new == [ui EXCEPT !.uploadedFiles = SelectSeq(@, LAMBDA id : id # fileId)]
         IN  req' = [req EXCEPT ![r].ui = Rendered(ui, new)]
    /\ UNCHANGED <<db, clock>>

\* handleSubmit(handleFormSubmit) on a valid form: the handler returns if
\* (!isValid || isSubmitting), else setIsSubmitting(true) and onSubmit with the
\* attachments it has captured.
FI_Submit(r) ==
    /\ Input(r) /\ req[r].ui.isValid /\ ~req[r].ui.isSubmitting
    /\ req[r].ui.submits < MaxSubmits
    /\ req[r].ui.closure.isValid /\ ~req[r].ui.closure.isSubmitting
    /\ LET ui == req[r].ui
           new == [ui EXCEPT !.isSubmitting = TRUE, !.submits = @ + 1,
                             !.sent = ui.closure.uploadedFiles]
       IN  req' = [req EXCEPT ![r].ui = Rendered(ui, new)]
    /\ UNCHANGED <<db, clock>>

\* onSubmit settles: reset() and setUploadedFiles([]) if it resolved, the
\* failure toast if it rejected; finally setIsSubmitting(false).
FI_SubmitDone(r) ==
    /\ Input(r) /\ req[r].ui.isSubmitting
    /\ \E ok \in BOOLEAN :
         LET ui == req[r].ui
             new == [ui EXCEPT !.isSubmitting = FALSE,
                               !.isValid = IF ok THEN FALSE ELSE @,
                               !.uploadedFiles = IF ok THEN <<>> ELSE @]
         IN  req' = [req EXCEPT ![r].ui = Rendered(ui, new)]
    /\ UNCHANGED <<db, clock>>

\* The parent renders and passes another onSubmit: handleFormSubmit is made anew.
FI_ParentRenders(r) ==
    /\ Input(r) /\ req[r].ui.closure # Captured(req[r].ui)
    /\ req' = [req EXCEPT ![r].ui.closure = Captured(req[r].ui)]
    /\ UNCHANGED <<db, clock>>

NextInput ==
    \E r \in {1, 2} :
        \/ FI_Mount(r)
        \/ FI_EditContent(r)
        \/ FI_SelectFile(r) \/ FI_UploadDone(r)
        \/ FI_RemoveFile(r)
        \/ FI_Submit(r) \/ FI_SubmitDone(r)
        \/ FI_ParentRenders(r)

SpecInput == Init /\ [][NextInput]_vars

Submitted(r) == Input(r) /\ req'[r].ui.submits = req[r].ui.submits + 1

\* C29: the attachments of a submitted follow-up request are exactly the
\* uploaded files in the list at the moment of submission: no removed file is
\* sent, and every uploaded file is.
C29_SendsTheFilesShown ==
    [][\A r \in Reqs : Submitted(r) => req'[r].ui.sent = req[r].ui.uploadedFiles]_vars

\* What holds: the request carries the files that were in the list when
\* handleFormSubmit was last made anew.
C29_SendsTheFilesCaptured ==
    [][\A r \in Reqs :
          Submitted(r) => req'[r].ui.sent = req[r].ui.closure.uploadedFiles]_vars

\* ------------------------------------------------------- the toast store
\* const TOAST_LIMIT = 1
TOAST_LIMIT == 1

\* [action.toast, ...state.toasts].slice(0, TOAST_LIMIT)
Slice(seq, n) == SubSeq(seq, 1, IF Len(seq) < n THEN Len(seq) ELSE n)

\* {...t, ...action.toast}: the fields the action carries replace the toast's.
Merge(t, partial) ==
    [f \in DOMAIN t |-> IF f \in DOMAIN partial THEN partial[f] ELSE t[f]]

\* reducer(state, action), on state.toasts; a store that keeps every toast is
\* Reducer_Unlimited.
Reducer_Unlimited(toasts, action) ==
    CASE action.type = "ADD_TOAST" -> <<action.toast>> \o toasts
      [] action.type = "UPDATE_TOAST" ->
            [k \in 1..Len(toasts) |->
                IF toasts[k].id = action.toast.id THEN Merge(toasts[k], action.toast)
                ELSE toasts[k]]
      [] action.type = "DISMISS_TOAST" ->
            [k \in 1..Len(toasts) |->
                IF toasts[k].id = action.toastId \/ action.toastId = Undefined
                THEN [toasts[k] EXCEPT !.open = FALSE] ELSE toasts[k]]
      [] action.type = "REMOVE_TOAST" ->
            IF action.toastId = Undefined THEN <<>>
            ELSE SelectSeq(toasts, LAMBDA t : t.id # action.toastId)
Reducer(toasts, action) ==
    CASE action.type = "ADD_TOAST" -> Slice(<<action.toast>> \o toasts, TOAST_LIMIT)
      [] action.type = "UPDATE_TOAST" ->
            [k \in 1..Len(toasts) |->
                IF toasts[k].id = action.toast.id THEN Merge(toasts[k], action.toast)
                ELSE toasts[k]]
      [] action.type = "DISMISS_TOAST" ->
            [k \in 1..Len(toasts) |->
                IF toasts[k].id = action.toastId \/ action.toastId = Undefined
                THEN [toasts[k] EXCEPT !.open = FALSE] ELSE toasts[k]]
      [] action.type = "REMOVE_TOAST" ->
            IF action.toastId = Undefined THEN <<>>
            ELSE SelectSeq(toasts, LAMBDA t : t.id # action.toastId)

\* The side effect of DISMISS_TOAST: addToRemoveQueue for the toast named, or
\* for every toast held.
RemoveQueue(toasts, timeouts, action) ==
    IF action.type # "DISMISS_TOAST" THEN timeouts
    ELSE IF action.toastId # Undefined THEN timeouts \cup {action.toastId}
    ELSE timeouts \cup {toasts[k].id : k \in 1..Len(toasts)}

ToastIds == {"1", "2"}
Toasts == [id : ToastIds, open : BOOLEAN, title : {"saved", "failed"}]
ToastActions ==
    [type : {"ADD_TOAST"}, toast : Toasts]
        \cup [type : {"UPDATE_TOAST"}, toast : [id : ToastIds, title : {"saved", "failed"}]]
        \cup [type : {"DISMISS_TOAST", "REMOVE_TOAST"}, toastId : ToastIds \cup {Undefined}]

Store(r) == req[r].kind = "toasts"

\* let memoryState = { toasts: [] }
TS_Load(r) ==
    /\ CanStart(r)
    /\ req' = [req EXCEPT ![r] = [IdleReq EXCEPT !.kind = "toasts", !.pc = "loaded"]]
    /\ UNCHANGED <<db, clock>>

\* dispatch(action): memoryState = reducer(memoryState, action); the action is
\* kept as the last one dispatched.
TS_Dispatch(r, actions) ==
    /\ Store(r)
    /\ \E action \in actions :
         req' = [req EXCEPT ![r].toasts = Reducer(@, action),
                            ![r].toastTimeouts = RemoveQueue(req[r].toasts, @, action),
                            ![r].data = action]
    /\ UNCHANGED <<db, clock>>

\* The timer of addToRemoveQueue fires: toastTimeouts.delete(toastId) and
\* dispatch({type: REMOVE_TOAST, toastId}).
TS_Timeout(r) ==
    /\ Store(r)
    /\ \E toastId \in req[r].toastTimeouts :
         LET action == [type |-> "REMOVE_TOAST", toastId |-> toastId]
         IN  req' = [req EXCEPT ![r].toasts = Reducer(@, action),
                                ![r].toastTimeouts = @ \ {toastId},
                                ![r].data = action]
    /\ UNCHANGED <<db, clock>>

NextToasts ==
    \E r \in {1} :
        \/ TS_Load(r)
        \/ TS_Dispatch(r, ToastActions)
        \/ TS_Timeout(r)

SpecToasts == Init /\ [][NextToasts]_vars

Dispatched(r) == Store(r) /\ Store(r)' /\ req'[r] # req[r]
IdsOf(toasts) == [k \in 1..Len(toasts) |-> toasts[k].id]

\* C30: the store never holds more than TOAST_LIMIT toasts; ADD_TOAST makes
\* the added toast the one held; DISMISS_TOAST removes nothing and sets
\* open = false on the toast named (on all without an id) and changes no other;
\* REMOVE_TOAST with an id removes that toast only, without an id all.
C30_ToastStore ==
    /\ [](\A r \in Reqs : Len(req[r].toasts) <= TOAST_LIMIT)
    /\ [][\A r \in Reqs :
            Dispatched(r) =>
               LET old == req[r].toasts
                   new == req'[r].toasts
                   action == req'[r].data
               IN  /\ action.type = "ADD_TOAST" => (Len(new) >= 1 /\ new[1] = action.toast)
                   /\ action.type = "DISMISS_TOAST" =>
                         /\ IdsOf(new) = IdsOf(old)
                         /\ \A k \in 1..Len(old) :
                               IF action.toastId \in {old[k].id, Undefined}
                               THEN new[k] = [old[k] EXCEPT !.open = FALSE]
                               ELSE new[k] = old[k]
                   /\ action.type = "REMOVE_TOAST" =>
                         IF action.toastId = Undefined THEN new = <<>>
                         ELSE /\ \A k \in 1..Len(new) : new[k].id # action.toastId
                              /\ new = SelectSeq(old, LAMBDA t : t.id # action.toastId)]_vars

\* A toast has been added over one that was held, and the one now held has been
\* dismissed: it is still there, closed.
C30_Witness ==
    /\ Store(1) /\ Len(req[1].toasts) = 1 /\ ~req[1].toasts[1].open
    /\ req[1].data.type = "DISMISS_TOAST"
    /\ req[1].toasts[1].id = "2" /\ "1" \in req[1].toastTimeouts

====
